---- MODULE Spec2Model ----
(***************************************************************************)
(* Zeitmanagement: the time-tracking store (TimeTrackingProvider) and the  *)
(* derived views of the useTimeTracking hook (join view, folder tree with  *)
(* rolled-up hours, flattened folder list, descendant index).              *)
(*                                                                         *)
(* Durations: durationHours is a number of hours in the program; here it   *)
(* is counted in half minutes (1/120 h), so that sums are exact integers   *)
(* and the rounding to the whole minutes that are persisted is visible.    *)
(* Timestamps ("YYYY-MM-DD" strings compared with < and >) are day numbers.*)
(***************************************************************************)
EXTENDS Integers, Sequences, FiniteSets, TLC

VARIABLES
    user,         \* useAuth().user: the identity signal, NULL when absent
    isMounted,    \* isMountedRef.current
    state,        \* useState<TimeTrackingState>: [folders, modules, entries]
    profile,      \* useState<ZeitProfile | null>
    loading,      \* useState(false)
    initialized,  \* useState(false)
    isMutating,   \* useState(false)
    error,        \* useState<string | null>
    calls,        \* the suspended activations of loadState / mutations, oldest first
    settled,      \* the promise the last step settled for its caller, if any
    issued,       \* how many operations of the store have been invoked so far
    db,           \* the remote collaborator's rows and id counters
    derived,      \* what the last render of useTimeTracking() returned
    formValues,   \* EntryForm: useState<EntryFormValues>, NoForm while no form is open
    timer         \* TimerPageContent: its state, its refs and the clock it reads

vars == <<user, isMounted, state, profile, loading, initialized, isMutating,
          error, calls, settled, issued, db, derived, formValues, timer>>

storeVars == <<user, isMounted, state, profile, loading, initialized,
               isMutating, error, calls, settled, issued, db>>

pageVars == <<formValues, timer>>

NULL == "null"

\* no <EntryForm /> is mounted
NoForm == [open |-> FALSE, folderId |-> "", moduleId |-> ""]

\* ------------------------------------------------------------------ bounds

MaxFolders == 3

FolderIds == <<"A", "B", "C", "D">>
FolderNames == <<"a", "b", "c", "d">>
ModuleIds == <<"M1", "M2">>
EntryIds == <<"E1", "E2">>
\* an id that no folder / module of any snapshot carries
MissingFolderId == "X"
MissingModuleId == "MX"
Orders == {0, 1}
Timestamps == {1, 2}
\* entry i lasts 2^(i-1) quarters of an hour: a sum of durations names its entries
DurationOf(i) == 30 * (2 ^ (i - 1))

\* ------------------------------------------------------- sequence helpers

Range(s) == {s[i] : i \in 1..Len(s)}

RECURSIVE SumSeq(_)
SumSeq(s) == IF s = <<>> THEN 0 ELSE Head(s) + SumSeq(Tail(s))

RECURSIVE Concat(_)
Concat(ss) == IF ss = <<>> THEN <<>> ELSE Head(ss) \o Concat(Tail(ss))

\* ----------------------------------------------------- src/hooks/useTimeTracking.ts

\* the comparator of the folder / module sort: a.order - b.order
CompareOrderFlipped(a, b) == b.order - a.order
CompareOrder(a, b) == a.order - b.order

\* Array.prototype.sort is stable: x goes behind every element that does
\* not compare greater than it
RECURSIVE InsertByOrder(_, _)
InsertByOrder(sorted, x) ==
    IF sorted = <<>> THEN <<x>>
    ELSE LET last == sorted[Len(sorted)]
         IN IF CompareOrder(last, x) > 0
            THEN InsertByOrder(SubSeq(sorted, 1, Len(sorted) - 1), x) \o <<last>>
            ELSE sorted \o <<x>>

RECURSIVE SortByOrder(_)
SortByOrder(s) ==
    IF s = <<>> THEN <<>>
    ELSE InsertByOrder(SortByOrder(SubSeq(s, 1, Len(s) - 1)), s[Len(s)])

\* the comparator of entriesSorted: -1 when a is later, 1 when earlier
CompareTimestampAscending(a, b) ==
    IF a.timestamp < b.timestamp THEN -1 ELSE IF a.timestamp > b.timestamp THEN 1 ELSE 0
CompareTimestamp(a, b) ==
    IF a.timestamp > b.timestamp THEN -1 ELSE IF a.timestamp < b.timestamp THEN 1 ELSE 0

RECURSIVE InsertByTimestamp(_, _)
InsertByTimestamp(sorted, x) ==
    IF sorted = <<>> THEN <<x>>
    ELSE LET last == sorted[Len(sorted)]
         IN IF CompareTimestamp(last, x) > 0
            THEN InsertByTimestamp(SubSeq(sorted, 1, Len(sorted) - 1), x) \o <<last>>
            ELSE sorted \o <<x>>

RECURSIVE entriesSorted(_)
entriesSorted(es) ==
    IF es = <<>> THEN <<>>
    ELSE InsertByTimestamp(entriesSorted(SubSeq(es, 1, Len(es) - 1)), es[Len(es)])

\* folderMap: forEach map.set(folder.id, folder); a later folder of the same
\* id replaces an earlier one
folderMapHas(fs, id) == \E i \in 1..Len(fs) : fs[i].id = id
folderMapGet(fs, id) ==
    LET hits == {i \in 1..Len(fs) : fs[i].id = id}
    IN fs[CHOOSE i \in hits : \A j \in hits : j <= i]

\* the entries of one module: entriesSorted.filter(entry.moduleId === module.id)
EntriesOfModule(sorted, m) == SelectSeq(sorted, LAMBDA e : e.moduleId = m.id)

\* entries.reduce((sum, entry) => sum + entry.durationHours, 0)
EntriesHours(es) == SumSeq([i \in 1..Len(es) |-> es[i].durationHours])

JoinModule(fs, sorted, m) ==
    LET es == EntriesOfModule(sorted, m)
    IN [id |-> m.id, folderId |-> m.folderId, order |-> m.order,
        folder |-> folderMapGet(fs, m.folderId),
        entries |-> es,
        totalHours |-> EntriesHours(es)]

\* modulesWithRelations: state.modules.map(...); the callback throws for the
\* first module whose folder is missing, and the map then yields nothing.
modulesWithRelationsDropping(s) ==
    LET kept == SelectSeq(s.modules, LAMBDA m : folderMapHas(s.folders, m.folderId))
        sorted == entriesSorted(s.entries)
    IN [ok |-> TRUE, value |-> [i \in 1..Len(kept) |-> JoinModule(s.folders, sorted, kept[i])]]
modulesWithRelations(s) ==
    LET bad == {i \in 1..Len(s.modules) : ~folderMapHas(s.folders, s.modules[i].folderId)}
        sorted == entriesSorted(s.entries)
    IN IF bad # {}
       THEN [ok |-> FALSE,
             error |-> <<"Ordner nicht gefunden",
                         s.modules[CHOOSE i \in bad : \A j \in bad : i <= j].folderId>>]
       ELSE [ok |-> TRUE,
             value |-> [i \in 1..Len(s.modules) |-> JoinModule(s.folders, sorted, s.modules[i])]]

\* modulesByFolderId.get(folderId) ?? []: the joined modules of the folder in
\* list order, sorted by order when the folder is one of state.folders
modulesByFolderIdGet(fs, joined, folderId) ==
    LET list == SelectSeq(joined, LAMBDA m : m.folderId = folderId)
    IN IF \E i \in 1..Len(fs) : fs[i].id = folderId THEN SortByOrder(list) ELSE list

\* totalHours: modulesHours + childrenHours
NodeTotalHoursOwnOnly(modulesHours, childrenHours) == modulesHours
NodeTotalHours(modulesHours, childrenHours) == modulesHours + childrenHours

\* state.folders.filter(folder.parentId === parentId).sort(a.order - b.order)
ChildFoldersFirstOnly(fs, parentId) ==
    LET all == SelectSeq(fs, LAMBDA f : f.parentId = parentId)
    IN IF all = <<>> THEN <<>> ELSE <<all[1]>>
ChildFoldersAdopting(fs, parentId) ==
    SortByOrder(SelectSeq(fs, LAMBDA f :
        \/ f.parentId = parentId
        \/ parentId = NULL /\ \A i \in 1..Len(fs) : fs[i].id # f.parentId))
ChildFolders(fs, parentId) ==
    SortByOrder(SelectSeq(fs, LAMBDA f : f.parentId = parentId))

\* build(parentId) of buildFolderTree
RECURSIVE build(_, _, _)
build(fs, joined, parentId) ==
    LET sel == ChildFolders(fs, parentId)
    IN [i \in 1..Len(sel) |->
          LET folder == sel[i]
              children == build(fs, joined, folder.id)
              mods == modulesByFolderIdGet(fs, joined, folder.id)
              modulesHours == SumSeq([k \in 1..Len(mods) |-> mods[k].totalHours])
              childrenHours == SumSeq([k \in 1..Len(children) |-> children[k].totalHours])
          IN [id |-> folder.id, name |-> folder.name, parentId |-> folder.parentId,
              order |-> folder.order,
              children |-> children,
              modules |-> mods,
              totalHours |-> NodeTotalHours(modulesHours, childrenHours)]]

buildFolderTree(fs, joined) == build(fs, joined, NULL)

\* the ids build is called with inside build(parentId) for parentId in from:
\* build(folder.id) for every folder the filter selects, and so on
RECURSIVE buildCalls(_, _, _)
buildCalls(fs, from, fuel) ==
    LET selected == {fs[i].id : i \in {k \in 1..Len(fs) : fs[k].parentId \in from}}
    IN IF fuel = 0 \/ selected \subseteq from THEN selected
       ELSE selected \cup buildCalls(fs, from \cup selected, fuel - 1)

\* build(null) never returns (the call stack overflows): a call build(id) it
\* makes leads to build(id) again
buildRecursesOnAnyCycle(fs) ==
    \E id \in {fs[i].id : i \in 1..Len(fs)} : id \in buildCalls(fs, {id}, Len(fs))
buildRecursesForever(fs) ==
    \E id \in buildCalls(fs, {NULL}, Len(fs)) : id \in buildCalls(fs, {id}, Len(fs))

\* the path of a node: `${parentPath} / ${node.name}` or node.name
PathOf(parentPath, name) ==
    IF parentPath # "" THEN parentPath \o " / " \o name ELSE name

\* the depth handed to the children: depth + 1
ChildDepth(depth) == depth + 1

\* traverse(nodes, parentPath, depth) of flattenedFolders
RECURSIVE traverse(_, _, _)
traverse(nodes, parentPath, depth) ==
    Concat([i \in 1..Len(nodes) |->
        LET node == nodes[i]
            path == PathOf(parentPath, node.name)
        IN <<[id |-> node.id, path |-> path, depth |-> depth, parentId |-> node.parentId]>>
           \o traverse(node.children, path, ChildDepth(depth))])

flattenedFolders(tree) == traverse(tree, "", 0)

\* computeDescendants(node): the set it returns
DescendantSetChildrenOnly(node) ==
    {node.id} \cup {node.children[i].id : i \in 1..Len(node.children)}
RECURSIVE DescendantSet(_)
DescendantSet(node) ==
    {node.id} \cup UNION {DescendantSet(node.children[i]) : i \in 1..Len(node.children)}

\* the (id, set) pairs computeDescendants puts into the map, in map.set order
RECURSIVE computeDescendants(_)
computeDescendants(node) ==
    Concat([i \in 1..Len(node.children) |-> computeDescendants(node.children[i])])
    \o <<[id |-> node.id, set |-> DescendantSet(node)]>>

\* folderDescendantsMap: a later map.set of the same key replaces an earlier one
folderDescendantsMap(tree) ==
    LET puts == Concat([i \in 1..Len(tree) |-> computeDescendants(tree[i])])
    IN [id \in {puts[i].id : i \in 1..Len(puts)} |->
          puts[CHOOSE i \in 1..Len(puts) :
                  puts[i].id = id /\ \A j \in 1..Len(puts) : puts[j].id = id => j <= i].set]

NotRendered == [status |-> "none"]

\* one render of useTimeTracking(): the memoised views of the current state;
\* the throw of modulesWithRelations aborts the render
useTimeTracking(s) ==
    LET join == modulesWithRelations(s)
    IN IF ~join.ok
       THEN [status |-> "error", error |-> join.error]
       ELSE IF buildRecursesForever(s.folders)
       THEN [status |-> "overflow"]
       ELSE LET tree == buildFolderTree(s.folders, join.value)
            IN [status |-> "ok",
                entriesSorted |-> entriesSorted(s.entries),
                modulesWithRelations |-> join.value,
                folderTree |-> tree,
                flattenedFolders |-> flattenedFolders(tree),
                folderDescendantsMap |-> folderDescendantsMap(tree)]

\* ----------------------------------- src/components/timer/TimerPageContent.tsx

\* Date.now() is counted in half seconds, so that Math.ceil and Math.floor of
\* a number of seconds are visible; a ref that holds null holds 0 here (the
\* code tests the refs for truthiness only).
DEFAULT_TIMER_MINUTES == 25

\* Date.now() when the page is mounted, and how far the clock runs
Epoch == 1000
MaxElapsed == 5
\* the clock moves by half a second or a second between two events, or by a
\* minute while the tab is throttled
ClockSteps == {1, 2}
ThrottledGap == 60 * 2
\* the minutes typed into the duration input
DurationMinutes == {0, 1, 25}

\* the state after the first render and its effects
InitialTimer ==
    [mounted |-> TRUE,
     mode |-> "stopwatch",
     stopwatchSeconds |-> 0,
     timerDurationSeconds |-> DEFAULT_TIMER_MINUTES * 60,
     remainingSeconds |-> DEFAULT_TIMER_MINUTES * 60,
     running |-> FALSE,
     intervalRef |-> FALSE,
     startTimestampRef |-> 0,
     targetEndRef |-> 0,
     now |-> Epoch]

\* no <TimerPageContent /> is mounted
NoTimer == [InitialTimer EXCEPT !.mounted = FALSE]

\* Math.max(0, Math.ceil((targetEndRef.current - Date.now()) / 1000))
RemainingAt(t) ==
    LET seconds == (t.targetEndRef - t.now + 1) \div 2
    IN IF seconds > 0 THEN seconds ELSE 0

\* Math.max(0, Math.floor((Date.now() - startTimestampRef.current) / 1000))
ElapsedAt(t) ==
    LET seconds == (t.now - t.startTimestampRef) \div 2
    IN IF seconds > 0 THEN seconds ELSE 0

\* the effect of lines 411-419, deps [mode, timerDurationSeconds]
ModeEffect(rendered, t) ==
    [t EXCEPT !.intervalRef = FALSE,
              !.running = FALSE,
              !.startTimestampRef = 0,
              !.targetEndRef = 0,
              !.remainingSeconds = IF rendered.mode = "timer"
                                   THEN (IF @ > 0 THEN @ ELSE rendered.timerDurationSeconds)
                                   ELSE @]

\* the effect of lines 421-425, deps [timerDurationSeconds, mode, running]
IdleEffect(rendered, t) ==
    IF rendered.mode = "timer" /\ ~rendered.running
    THEN [t EXCEPT !.remainingSeconds = rendered.timerDurationSeconds]
    ELSE t

\* the render that follows a handler and the effects whose dependencies have
\* changed since the render before, repeated while the effects change state
RECURSIVE Commit(_, _, _)
Commit(before, rendered, fuel) ==
    LET modeDeps == <<before.mode, before.timerDurationSeconds>>
                       # <<rendered.mode, rendered.timerDurationSeconds>>
        idleDeps == <<before.timerDurationSeconds, before.mode, before.running>>
                       # <<rendered.timerDurationSeconds, rendered.mode, rendered.running>>
        t1 == IF modeDeps THEN ModeEffect(rendered, rendered) ELSE rendered
        t2 == IF idleDeps THEN IdleEffect(rendered, t1) ELSE t1
    IN IF fuel = 0 \/ t2 = rendered THEN t2 ELSE Commit(rendered, t2, fuel - 1)

AfterHandler(before, rendered) == Commit(before, rendered, 3)

\* ------------------------------------ src/unnamed/part_000: TimeTrackingProvider

\* activations that may be suspended at once, and operations invoked in a run
MaxCalls == 2
MaxIssued == 3

INITIAL_STATE == [folders |-> <<>>, modules |-> <<>>, entries |-> <<>>]

MutationOps ==
    {"addFolder", "updateFolder", "deleteFolder",
     "addModule", "updateModule", "deleteModule",
     "addEntry", "updateEntry", "deleteEntry"}

\* deleteFolder and deleteModule await loadState({ withSpinner: false })
ReloadingOpsWithEntries == {"deleteFolder", "deleteModule", "deleteEntry"}
ReloadingOpsNone == {}
ReloadingOps == {"deleteFolder", "deleteModule"}

\* the message of the throw that precedes the try block
AuthMessage(op) == "Bitte melde dich an: " \o op
AuthMessages == {AuthMessage(op) : op \in MutationOps}

\* the fallbackMessage handed to handleResponse
FallbackMessage(op) == "fallback: " \o op

\* the message of an { error: message } body
ServerMessage == "Unbekannter Fehler"

\* the payload of a call: the id it addresses and the fields it sends
Arg(id, name, ref, hours, timestamp) ==
    [id |-> id, name |-> name, ref |-> ref, hours |-> hours, timestamp |-> timestamp]
NoArg == Arg(NULL, NULL, NULL, 0, 0)

NoBody == [kind |-> "none"]
ErrorBody(message) == [kind |-> "error", error |-> message]
DataBody(data) == [kind |-> "data", data |-> data]
SuccessBody == [kind |-> "plain", success |-> TRUE]
NoResponse == [ok |-> FALSE, body |-> NoBody]

\* an activation suspended in `await fetch(...)`
NewCall(op, arg, withSpinner, stage) ==
    [op |-> op, arg |-> arg, withSpinner |-> withSpinner, stage |-> stage,
     pc |-> "sent", response |-> NoResponse]

NoSettle == [op |-> "none", result |-> "none", message |-> NULL]
Settle(op, result, message) == [op |-> op, result |-> result, message |-> message]

\* the activation at position i has run to its end
RemoveAt(s, i) == SubSeq(s, 1, i - 1) \o SubSeq(s, i + 1, Len(s))
InFlight(op) == Cardinality({i \in 1..Len(calls) : calls[i].op = op})

\* handleResponse(response, fallbackMessage): what it throws or returns
handleResponse(response, fallbackMessage) ==
    LET payload == response.body
    IN IF ~response.ok
       THEN [threw |-> TRUE,
             message |-> IF payload.kind = "error" THEN payload.error ELSE fallbackMessage]
       ELSE IF payload.kind = "none" THEN [threw |-> FALSE, value |-> NoBody]
       ELSE IF payload.kind = "data" THEN [threw |-> FALSE, value |-> payload.data]
       ELSE [threw |-> FALSE, value |-> payload]

\* prev.x.map((item) => (item.id === id ? updated : item))
ReplaceByIdAppending(list, id, updated) ==
    SelectSeq(list, LAMBDA item : item.id # id) \o <<updated>>
ReplaceById(list, id, updated) ==
    [i \in 1..Len(list) |-> IF list[i].id = id THEN updated ELSE list[i]]

\* prev.entries.filter((entry) => entry.id !== id)
RemoveById(list, id) == SelectSeq(list, LAMBDA item : item.id # id)

\* the setState((prev) => ...) of a mutation whose response was a success
ApplyMutationAppending(op, arg, value, prev) ==
    CASE op = "addFolder" -> [prev EXCEPT !.folders = Append(prev.folders, value)]
      [] op = "updateFolder" -> [prev EXCEPT !.folders = ReplaceById(prev.folders, arg.id, value)]
      [] op = "addModule" -> [prev EXCEPT !.modules = Append(prev.modules, value)]
      [] op = "updateModule" -> [prev EXCEPT !.modules = ReplaceById(prev.modules, arg.id, value)]
      [] op = "addEntry" -> [prev EXCEPT !.entries = Append(prev.entries, value)]
      [] op = "updateEntry" -> [prev EXCEPT !.entries = ReplaceById(prev.entries, arg.id, value)]
      [] op = "deleteEntry" -> [prev EXCEPT !.entries = RemoveById(prev.entries, arg.id)]
      [] OTHER -> prev
ApplyMutationDroppingUpdate(op, arg, value, prev) ==
    CASE op = "addFolder" -> [prev EXCEPT !.folders = Append(prev.folders, value)]
      [] op = "updateFolder" -> [prev EXCEPT !.folders = ReplaceById(prev.folders, arg.id, value)]
      [] op = "addModule" -> [prev EXCEPT !.modules = Append(prev.modules, value)]
      [] op = "updateModule" -> [prev EXCEPT !.modules = ReplaceById(prev.modules, arg.id, value)]
      [] op = "addEntry" -> [prev EXCEPT !.entries = <<value>> \o prev.entries]
      [] op = "deleteEntry" -> [prev EXCEPT !.entries = RemoveById(prev.entries, arg.id)]
      [] OTHER -> prev
ApplyMutation(op, arg, value, prev) ==
    CASE op = "addFolder" -> [prev EXCEPT !.folders = Append(prev.folders, value)]
      [] op = "updateFolder" -> [prev EXCEPT !.folders = ReplaceById(prev.folders, arg.id, value)]
      [] op = "addModule" -> [prev EXCEPT !.modules = Append(prev.modules, value)]
      [] op = "updateModule" -> [prev EXCEPT !.modules = ReplaceById(prev.modules, arg.id, value)]
      [] op = "addEntry" -> [prev EXCEPT !.entries = <<value>> \o prev.entries]
      [] op = "updateEntry" -> [prev EXCEPT !.entries = ReplaceById(prev.entries, arg.id, value)]
      [] op = "deleteEntry" -> [prev EXCEPT !.entries = RemoveById(prev.entries, arg.id)]
      [] OTHER -> prev

\* state after the try / catch of a mutation: the catch block sets no state
StateOnResponseOptimistic(op, arg, r, mounted, prev) ==
    IF mounted /\ op = "deleteEntry" THEN ApplyMutation(op, arg, NoBody, prev)
    ELSE IF r.threw \/ ~mounted THEN prev
    ELSE ApplyMutation(op, arg, r.value, prev)
StateOnResponseUnguarded(op, arg, r, mounted, prev) ==
    IF r.threw THEN prev ELSE ApplyMutation(op, arg, r.value, prev)
StateOnResponse(op, arg, r, mounted, prev) ==
    IF r.threw \/ ~mounted THEN prev ELSE ApplyMutation(op, arg, r.value, prev)

\* error after the catch block: if (isMountedRef.current) setError(message)
ErrorOnFailureUnset(message, mounted, prev) == prev
ErrorOnFailure(message, mounted, prev) == IF mounted THEN message ELSE prev

\* error once loadState has passed `if (isMountedRef.current) setError(null)`
ErrorOnLoadStartKept(mounted, prev) == prev
ErrorOnLoadStart(mounted, prev) == IF mounted THEN NULL ELSE prev

\* isMutating after the finally block of a mutation:
\* if (isMountedRef.current) setIsMutating(false)
MutatingAfterStuck(mounted, prev) == prev
MutatingAfter(mounted, prev) == IF mounted THEN FALSE ELSE prev

\* if (!user) throw ...: the guard that opens every mutation
NoUserNever(u) == FALSE
NoUser(u) == u = NULL

\* ------------------------------------- src/lib/services/timeTrackingService.ts

\* Math.round(hours * 60), halves rounded up
hoursToMinutes(hours) == (hours + 1) \div 2
\* Math.round(minutes) / 60
minutesToHoursUnscaled(minutes) == minutes
minutesToHours(minutes) == 2 * minutes

mapEntryRow(row) ==
    [id |-> row.id, moduleId |-> row.module_id,
     durationHours |-> minutesToHours(row.duration_minutes), timestamp |-> row.entry_date]

EmptyDb ==
    [folders |-> <<>>, modules |-> <<>>, entries |-> <<>>,
     createdFolders |-> 0, createdModules |-> 0, createdEntries |-> 0]

IdsOf(list) == {list[i].id : i \in 1..Len(list)}

\* computeNextFolderOrder / computeNextModuleOrder: the count of the siblings
computeNextFolderOrder(d, parentId) ==
    Cardinality({i \in 1..Len(d.folders) : d.folders[i].parentId = parentId})
computeNextModuleOrder(d, folderId) ==
    Cardinality({i \in 1..Len(d.modules) : d.modules[i].folderId = folderId})

\* fetchState: the rows as the snapshot of GET /api/zeit/state
fetchState(d) ==
    [profile |-> "p1", folders |-> d.folders, modules |-> d.modules,
     entries |-> [i \in 1..Len(d.entries) |-> mapEntryRow(d.entries[i])]]

\* the rows a delete of folder id takes with it: the folder, the folders
\* beneath it, their modules and the entries of those
RECURSIVE FoldersBeneath(_, _, _)
FoldersBeneath(d, ids, fuel) ==
    LET more == ids \cup {d.folders[i].id : i \in {k \in 1..Len(d.folders) : d.folders[k].parentId \in ids}}
    IN IF fuel = 0 \/ more = ids THEN ids ELSE FoldersBeneath(d, more, fuel - 1)

CascadeDeleteModules(d, moduleIds) ==
    [d EXCEPT !.modules = SelectSeq(d.modules, LAMBDA m : m.id \notin moduleIds),
              !.entries = SelectSeq(d.entries, LAMBDA e : e.module_id \notin moduleIds)]

CascadeDeleteFolder(d, id) ==
    LET gone == FoldersBeneath(d, {id}, Len(d.folders))
        mods == {d.modules[i].id : i \in {k \in 1..Len(d.modules) : d.modules[k].folderId \in gone}}
        d1 == CascadeDeleteModules(d, mods)
    IN [d1 EXCEPT !.folders = SelectSeq(d.folders, LAMBDA f : f.id \notin gone)]

\* the row a request refers to exists (null refers to nothing)
ReferenceHolds(rows, ref) == ref = NULL \/ ref \in IdsOf(rows)

\* the service method behind a request, when it succeeds: the rows after it
\* and the body of its response
ServiceSuccess(d, c) ==
    LET a == c.arg
    IN CASE c.op = "loadState" \/ c.stage = "reload" ->
              {[db |-> d, body |-> DataBody(fetchState(d))]}
         [] c.op = "addFolder" ->
              IF ReferenceHolds(d.folders, a.ref) /\ d.createdFolders < Len(FolderIds)
              THEN LET row == [id |-> FolderIds[d.createdFolders + 1], name |-> a.name,
                               parentId |-> a.ref,
                               order |-> computeNextFolderOrder(d, a.ref)]
                   IN {[db |-> [d EXCEPT !.folders = Append(@, row),
                                         !.createdFolders = @ + 1],
                        body |-> DataBody(row)]}
              ELSE {}
         [] c.op = "updateFolder" ->
              IF a.id \in IdsOf(d.folders) /\ ReferenceHolds(d.folders, a.ref)
              THEN LET old == CHOOSE f \in Range(d.folders) : f.id = a.id
                       row == [old EXCEPT !.parentId = a.ref]
                   IN {[db |-> [d EXCEPT !.folders = ReplaceById(@, a.id, row)],
                        body |-> DataBody(row)]}
              ELSE {}
         [] c.op = "deleteFolder" ->
              {[db |-> CascadeDeleteFolder(d, a.id), body |-> SuccessBody]}
         [] c.op = "addModule" ->
              IF a.ref \in IdsOf(d.folders) /\ d.createdModules < Len(ModuleIds)
              THEN LET row == [id |-> ModuleIds[d.createdModules + 1], folderId |-> a.ref,
                               order |-> computeNextModuleOrder(d, a.ref)]
                   IN {[db |-> [d EXCEPT !.modules = Append(@, row),
                                         !.createdModules = @ + 1],
                        body |-> DataBody(row)]}
              ELSE {}
         [] c.op = "updateModule" ->
              IF a.id \in IdsOf(d.modules) /\ a.ref \in IdsOf(d.folders)
              THEN LET old == CHOOSE m \in Range(d.modules) : m.id = a.id
                       row == [old EXCEPT !.folderId = a.ref]
                   IN {[db |-> [d EXCEPT !.modules = ReplaceById(@, a.id, row)],
                        body |-> DataBody(row)]}
              ELSE {}
         [] c.op = "deleteModule" ->
              {[db |-> CascadeDeleteModules(d, {a.id}), body |-> SuccessBody]}
         [] c.op = "addEntry" ->
              IF a.ref \in IdsOf(d.modules) /\ d.createdEntries < Len(EntryIds)
              THEN LET row == [id |-> EntryIds[d.createdEntries + 1], module_id |-> a.ref,
                               duration_minutes |-> hoursToMinutes(a.hours),
                               entry_date |-> a.timestamp]
                   IN {[db |-> [d EXCEPT !.entries = Append(@, row),
                                         !.createdEntries = @ + 1],
                        body |-> DataBody(mapEntryRow(row))]}
              ELSE {}
         [] c.op = "updateEntry" ->
              IF a.id \in IdsOf(d.entries)
              THEN LET old == CHOOSE e \in Range(d.entries) : e.id = a.id
                       row == [old EXCEPT !.duration_minutes = hoursToMinutes(a.hours)]
                   IN {[db |-> [d EXCEPT !.entries = ReplaceById(@, a.id, row)],
                        body |-> DataBody(mapEntryRow(row))]}
              ELSE {}
         [] c.op = "deleteEntry" ->
              {[db |-> [d EXCEPT !.entries = RemoveById(@, a.id)], body |-> SuccessBody]}

\* the route handler: { data } / { success: true } with a 2xx status, or
\* { error: message } with 401 / 500; a response without a JSON body stands
\* for a failure below the handler
RouteResults(d, c) ==
    {[db |-> r.db, response |-> [ok |-> TRUE, body |-> r.body]] : r \in ServiceSuccess(d, c)}
    \cup {[db |-> d, response |-> [ok |-> FALSE, body |-> b]] : b \in {ErrorBody(ServerMessage), NoBody}}

\* ------------------------------------- src/app/api/zeit/**/route.ts: a request

\* String.prototype.toLowerCase over the letters A..Z, which is what the
\* i flag of UNAUTHORIZED_REGEX folds
UpperCase == "ABCDEFGHIJKLMNOPQRSTUVWXYZ"
LowerCase == "abcdefghijklmnopqrstuvwxyz"

LowerChar(ch) ==
    IF \E i \in 1..Len(UpperCase) : SubSeq(UpperCase, i, i) = ch
    THEN LET i == CHOOSE i \in 1..Len(UpperCase) : SubSeq(UpperCase, i, i) = ch
         IN SubSeq(LowerCase, i, i)
    ELSE ch

RECURSIVE CaseFolded(_)
CaseFolded(s) ==
    IF Len(s) = 0 THEN ""
    ELSE LowerChar(SubSeq(s, 1, 1)) \o CaseFolded(SubSeq(s, 2, Len(s)))

\* an unanchored match: the pattern occurs somewhere in the subject
Occurs(pattern, subject) ==
    \E i \in 1..(Len(subject) - Len(pattern) + 1) :
        SubSeq(subject, i, i + Len(pattern) - 1) = pattern

\* /unauthorisiert|authentifizierung/i.test(message)
UNAUTHORIZED_REGEX(message) ==
    \/ Occurs("unauthorisiert", CaseFolded(message))
    \/ Occurs("authentifizierung", CaseFolded(message))

\* a thrown value: an Error with its message
Thrown(message) == [isError |-> TRUE, message |-> message]

resolveStatus(thrown) ==
    IF thrown.isError /\ UNAUTHORIZED_REGEX(thrown.message) THEN 401 ELSE 500

\* what supabase.auth.getUser() finds for the request's cookies
Sessions == {"user", "none", "failed"}

\* error.message of a failed Supabase call
ErrorDetails == {"fetch failed", "JWT expired"}

\* TimeTrackingService.fromRequest
fromRequest(session, detail) ==
    CASE session = "failed" ->
           [threw |-> TRUE, error |-> Thrown("Authentifizierung fehlgeschlagen: " \o detail)]
      [] session = "none" ->
           [threw |-> TRUE,
            error |-> Thrown("Unautorisiert: Kein angemeldeter Benutzer gefunden.")]
      [] OTHER -> [threw |-> FALSE, error |-> Thrown("")]

\* the routes of src/app/api/zeit, by the store operation that calls them
RouteOps == {"loadState", "updateFolder", "deleteFolder", "updateModule", "deleteModule",
             "updateEntry", "deleteEntry"}

\* PATCH handlers start with `await request.json()`
ReadsPayload(op) == op \in {"updateFolder", "updateModule", "updateEntry"}

\* the message of the service method's throw
ServiceFailure(op, detail) ==
    (CASE op = "loadState" -> "Zeitdaten konnten nicht geladen werden: "
       [] op = "updateFolder" -> "Ordner konnte nicht aktualisiert werden: "
       [] op = "deleteFolder" -> "Ordner konnte nicht geloescht werden: "
       [] op = "updateModule" -> "Modul konnte nicht aktualisiert werden: "
       [] op = "deleteModule" -> "Modul konnte nicht geloescht werden: "
       [] op = "updateEntry" -> "Zeiteintrag konnte nicht aktualisiert werden: "
       [] op = "deleteEntry" -> "Zeiteintrag konnte nicht geloescht werden: ") \o detail

\* the catch block of a handler
Caught(d, thrown) ==
    [db |-> d, status |-> resolveStatus(thrown),
     body |-> ErrorBody(IF thrown.isError THEN thrown.message ELSE ServerMessage)]

\* a handler from its first statement to its response: r.parsed says whether
\* the body is JSON, r.session what the lookup finds, r.fails whether the
\* service's database call fails
RouteHandler(d, r) ==
    IF ReadsPayload(r.op) /\ ~r.parsed
    THEN {Caught(d, Thrown("Unexpected end of JSON input"))}
    ELSE LET service == fromRequest(r.session, r.detail)
         IN IF service.threw THEN {Caught(d, service.error)}
            ELSE IF r.fails THEN {Caught(d, Thrown(ServiceFailure(r.op, r.detail)))}
            ELSE {[db |-> s.db, status |-> 200, body |-> s.body] : s \in ServiceSuccess(d, r)}
\* ------------------------------------------------------ the store's steps

\* the arguments the pages hand to a mutation: ids of the local snapshot
LocalFolderIds == IdsOf(state.folders)
LocalModuleIds == IdsOf(state.modules)
LocalEntryIds == IdsOf(state.entries)
EntryHours == {30, 60}

MutationArgs(op) ==
    CASE op = "addFolder" -> {Arg(NULL, "a", p, 0, 0) : p \in {NULL} \cup LocalFolderIds}
      [] op = "updateFolder" -> {Arg(f, NULL, p, 0, 0) : f \in LocalFolderIds, p \in {NULL} \cup LocalFolderIds}
      [] op = "deleteFolder" -> {Arg(f, NULL, NULL, 0, 0) : f \in LocalFolderIds}
      [] op = "addModule" -> {Arg(NULL, NULL, f, 0, 0) : f \in LocalFolderIds}
      [] op = "updateModule" -> {Arg(m, NULL, f, 0, 0) : m \in LocalModuleIds, f \in LocalFolderIds}
      [] op = "deleteModule" -> {Arg(m, NULL, NULL, 0, 0) : m \in LocalModuleIds}
      [] op = "addEntry" -> {Arg(NULL, NULL, m, h, 1) : m \in LocalModuleIds, h \in EntryHours}
      [] op = "updateEntry" -> {Arg(e, NULL, NULL, h, 0) : e \in LocalEntryIds, h \in EntryHours}
      [] op = "deleteEntry" -> {Arg(e, NULL, NULL, 0, 0) : e \in LocalEntryIds}

\* creations are issued only while the remote side has ids left for them
CreationAllowed(op) ==
    CASE op = "addFolder" -> db.createdFolders + InFlight(op) < Len(FolderIds)
      [] op = "addModule" -> db.createdModules + InFlight(op) < Len(ModuleIds)
      [] op = "addEntry" -> db.createdEntries + InFlight(op) < Len(EntryIds)
      [] OTHER -> TRUE

\* the rows of an account that holds folder A, module M1 in it and entry E1
\* of M1
SeedDb ==
    [folders |-> <<[id |-> "A", name |-> "a", parentId |-> NULL, order |-> 0]>>,
     modules |-> <<[id |-> "M1", folderId |-> "A", order |-> 0]>>,
     entries |-> <<[id |-> "E1", module_id |-> "M1", duration_minutes |-> 15,
                    entry_date |-> 1]>>,
     createdFolders |-> 1, createdModules |-> 1, createdEntries |-> 1]

InitialDbs == {EmptyDb, SeedDb}

Init ==
    /\ user = NULL
    /\ isMounted = TRUE
    /\ state = INITIAL_STATE
    /\ profile = NULL
    /\ loading = FALSE
    /\ initialized = FALSE
    /\ isMutating = FALSE
    /\ error = NULL
    /\ calls = <<>>
    /\ settled = NoSettle
    /\ issued = 0
    /\ db \in InitialDbs
    /\ derived = [status |-> "none"]
    /\ formValues = NoForm
    /\ timer = NoTimer

\* the identity signal turns present; the user effect calls
\* loadState({ withSpinner: true })
SignIn ==
    /\ isMounted /\ user = NULL /\ Len(calls) < MaxCalls /\ issued < MaxIssued
    /\ issued' = issued + 1
    /\ user' = "u1"
    /\ loading' = TRUE
    /\ error' = ErrorOnLoadStart(isMounted, error)
    /\ calls' = Append(calls, NewCall("loadState", NoArg, TRUE, "main"))
    /\ settled' = NoSettle
    /\ UNCHANGED <<isMounted, state, profile, initialized, isMutating, db, derived, formValues, timer>>

\* the identity signal turns absent; the user effect resets the store
SignOut ==
    /\ isMounted /\ user # NULL
    /\ user' = NULL
    /\ state' = INITIAL_STATE
    /\ profile' = NULL
    /\ initialized' = FALSE
    /\ loading' = FALSE
    /\ settled' = NoSettle
    /\ UNCHANGED <<isMounted, isMutating, error, calls, issued, db, derived, formValues, timer>>

\* the cleanup of the mount effect
Unmount ==
    /\ isMounted
    /\ isMounted' = FALSE
    /\ settled' = NoSettle
    /\ UNCHANGED <<user, state, profile, loading, initialized, isMutating, error, calls,
                   issued, db, derived, formValues, timer>>

\* refresh(options): loadState up to its await
Refresh(withSpinner) ==
    /\ isMounted /\ issued < MaxIssued
    /\ issued' = issued + 1
    /\ IF user = NULL
       THEN /\ state' = INITIAL_STATE
            /\ profile' = NULL
            /\ initialized' = FALSE
            /\ loading' = FALSE
            /\ settled' = Settle("refresh", "resolved", NULL)
            /\ UNCHANGED <<error, calls>>
       ELSE /\ Len(calls) < MaxCalls
            /\ loading' = (IF withSpinner THEN TRUE ELSE loading)
            /\ error' = ErrorOnLoadStart(isMounted, error)
            /\ calls' = Append(calls, NewCall("loadState", NoArg, withSpinner, "main"))
            /\ settled' = NoSettle
            /\ UNCHANGED <<state, profile, initialized>>
    /\ UNCHANGED <<user, isMounted, isMutating, db, derived, formValues, timer>>

\* a mutation up to its await: the guard, setIsMutating(true), setError(null), fetch
Mutate(op, arg) ==
    /\ isMounted /\ issued < MaxIssued
    /\ issued' = issued + 1
    /\ IF NoUser(user)
       THEN /\ settled' = Settle(op, "rejected", AuthMessage(op))
            /\ UNCHANGED <<isMutating, error, calls>>
       ELSE /\ Len(calls) < MaxCalls
            /\ CreationAllowed(op)
            /\ isMutating' = TRUE
            /\ error' = NULL
            /\ calls' = Append(calls, NewCall(op, arg, FALSE, "main"))
            /\ settled' = NoSettle
    /\ UNCHANGED <<user, isMounted, state, profile, loading, initialized, db, derived, formValues, timer>>

Invoke ==
    \E op \in MutationOps :
        \E arg \in (IF user = NULL THEN {NoArg} ELSE MutationArgs(op)) : Mutate(op, arg)

\* the remote side serves a request
Serve(i) ==
    /\ i \in 1..Len(calls)
    /\ calls[i].pc = "sent"
    /\ \E r \in RouteResults(db, calls[i]) :
          /\ db' = r.db
          /\ calls' = [calls EXCEPT ![i].pc = "responded", ![i].response = r.response]
    /\ settled' = NoSettle
    /\ UNCHANGED <<user, isMounted, state, profile, loading, initialized, isMutating,
                   error, issued, derived, formValues, timer>>

\* the snapshot loadState installs: the payload in the try block,
\* INITIAL_STATE in the catch block
LoadedStateKeeping(r, prev) ==
    IF r.threw THEN prev
    ELSE [folders |-> r.value.folders, modules |-> r.value.modules,
          entries |-> r.value.entries]
LoadedStateTorn(r, prev) ==
    IF r.threw THEN INITIAL_STATE
    ELSE [folders |-> r.value.folders, modules |-> r.value.modules,
          entries |-> prev.entries]
LoadedState(r, prev) ==
    IF r.threw THEN INITIAL_STATE
    ELSE [folders |-> r.value.folders, modules |-> r.value.modules,
          entries |-> r.value.entries]

\* loading after the finally block of loadState
LoadingAfterStuck(withSpinner, prev) == prev
LoadingAfter(withSpinner, prev) == IF withSpinner THEN FALSE ELSE prev

\* loadState after its await: the try, catch and finally blocks
LoadStateFinish(c, r) ==
    IF ~isMounted
    THEN UNCHANGED <<state, profile, initialized, error, loading>>
    ELSE /\ loading' = LoadingAfter(c.withSpinner, loading)
         /\ initialized' = TRUE
         /\ state' = LoadedState(r, state)
         /\ IF r.threw
            THEN /\ error' = r.message
                 /\ profile' = NULL
            ELSE /\ profile' = r.value.profile
                 /\ UNCHANGED error

\* the response of GET /api/zeit/state reaches a refresh
DeliverState(i) ==
    /\ i \in 1..Len(calls)
    /\ LET c == calls[i]
           r == handleResponse(c.response, FallbackMessage("loadState"))
       IN /\ c.pc = "responded" /\ c.op = "loadState"
          /\ LoadStateFinish(c, r)
          /\ calls' = RemoveAt(calls, i)
          /\ settled' = Settle("refresh", "resolved", NULL)
          /\ UNCHANGED <<user, isMounted, isMutating, issued, db, derived, formValues, timer>>

\* the response of its own request reaches a mutation
DeliverMutation(i) ==
    /\ i \in 1..Len(calls)
    /\ LET c == calls[i]
           r == handleResponse(c.response, FallbackMessage(c.op))
       IN /\ c.pc = "responded" /\ c.op \in MutationOps /\ c.stage = "main"
          /\ IF ~r.threw /\ c.op \in ReloadingOps
             THEN \* await loadState({ withSpinner: false }), up to its await
                  /\ error' = ErrorOnLoadStart(isMounted, error)
                  /\ calls' = [calls EXCEPT ![i] = NewCall(c.op, c.arg, FALSE, "reload")]
                  /\ settled' = NoSettle
                  /\ UNCHANGED <<state, isMutating>>
             ELSE /\ state' = StateOnResponse(c.op, c.arg, r, isMounted, state)
                  /\ error' = (IF r.threw THEN ErrorOnFailure(r.message, isMounted, error) ELSE error)
                  /\ isMutating' = MutatingAfter(isMounted, isMutating)
                  /\ calls' = RemoveAt(calls, i)
                  /\ settled' = (IF r.threw THEN Settle(c.op, "rejected", r.message)
                                 ELSE Settle(c.op, "resolved", NULL))
          /\ UNCHANGED <<user, isMounted, profile, loading, initialized, issued, db, derived, formValues, timer>>

\* the response of the follow-up GET reaches deleteFolder / deleteModule
DeliverReload(i) ==
    /\ i \in 1..Len(calls)
    /\ LET c == calls[i]
           r == handleResponse(c.response, FallbackMessage("loadState"))
       IN /\ c.pc = "responded" /\ c.op \in ReloadingOps /\ c.stage = "reload"
          /\ LoadStateFinish(c, r)
          /\ isMutating' = MutatingAfter(isMounted, isMutating)
          /\ calls' = RemoveAt(calls, i)
          /\ settled' = Settle(c.op, "resolved", NULL)
          /\ UNCHANGED <<user, isMounted, issued, db, derived, formValues, timer>>

Next ==
    \/ SignIn
    \/ SignOut
    \/ Unmount
    \/ \E withSpinner \in {TRUE} : Refresh(withSpinner)
    \/ Invoke
    \/ \E i \in 1..MaxCalls : Serve(i)
    \/ \E i \in 1..MaxCalls : DeliverState(i)
    \/ \E i \in 1..MaxCalls : DeliverMutation(i)
    \/ \E i \in 1..MaxCalls : DeliverReload(i)

Spec == Init /\ [][Next]_vars

\* a request that was sent is served, and a response that has arrived is
\* handed to the activation that awaits it
Fairness ==
    /\ WF_vars(\E i \in 1..MaxCalls : Serve(i))
    /\ WF_vars(\E i \in 1..MaxCalls : DeliverState(i))
    /\ WF_vars(\E i \in 1..MaxCalls : DeliverMutation(i))
    /\ WF_vars(\E i \in 1..MaxCalls : DeliverReload(i))

\* the store after a refresh() invoked before any sign-in
InitRefreshed ==
    /\ user = NULL
    /\ isMounted = TRUE
    /\ state = INITIAL_STATE
    /\ profile = NULL
    /\ loading = FALSE
    /\ initialized = FALSE
    /\ isMutating = FALSE
    /\ error = NULL
    /\ calls = <<>>
    /\ settled = Settle("refresh", "resolved", NULL)
    /\ issued = 1
    /\ db \in InitialDbs
    /\ derived = NotRendered
    /\ formValues = NoForm
    /\ timer = NoTimer

SpecLive == InitRefreshed /\ [][Next]_vars /\ Fairness
\* the rows of an account with folder A, B inside A and C inside B, module
\* M1 in C with entry E1, and module M2 in A with entry E2
NestedDb ==
    [folders |-> <<[id |-> "A", name |-> "a", parentId |-> NULL, order |-> 0],
                   [id |-> "B", name |-> "b", parentId |-> "A", order |-> 0],
                   [id |-> "C", name |-> "c", parentId |-> "B", order |-> 0]>>,
     modules |-> <<[id |-> "M1", folderId |-> "C", order |-> 0],
                   [id |-> "M2", folderId |-> "A", order |-> 0]>>,
     entries |-> <<[id |-> "E1", module_id |-> "M1", duration_minutes |-> 15,
                    entry_date |-> 1],
                   [id |-> "E2", module_id |-> "M2", duration_minutes |-> 30,
                    entry_date |-> 2]>>,
     createdFolders |-> 3, createdModules |-> 2, createdEntries |-> 2]

\* the store once the GET issued by the sign-in and one refresh have installed
\* that account
InitLoaded ==
    /\ user = "u1"
    /\ isMounted = TRUE
    /\ db = NestedDb
    /\ state = LoadedState([threw |-> FALSE, value |-> fetchState(NestedDb)], INITIAL_STATE)
    /\ profile = fetchState(NestedDb).profile
    /\ loading = FALSE
    /\ initialized = TRUE
    /\ isMutating = FALSE
    /\ error = NULL
    /\ calls = <<>>
    /\ settled = Settle("refresh", "resolved", NULL)
    /\ issued = 2
    /\ derived = NotRendered
    /\ formValues = NoForm
    /\ timer = NoTimer

SpecLoaded == InitLoaded /\ [][Next]_vars

\* ------------------------------------------------ rendering a given snapshot

\* folder lists of n folders; folder i carries id FolderIds[i] and any parent:
\* none, a folder of the list (itself included) or an id that names no folder
TreeFolderLists(n) ==
    LET parents == {NULL, MissingFolderId} \cup {FolderIds[j] : j \in 1..n}
    IN {[i \in 1..n |-> [id |-> FolderIds[i], name |-> FolderNames[i],
                         parentId |-> p[i], order |-> o[i]]] :
          p \in [1..n -> parents], o \in [1..n -> Orders]}

\* forests (and folders with a missing parent): the parent is listed earlier
ForestFolderLists(n) ==
    {[i \in 1..n |-> [id |-> FolderIds[i], name |-> FolderNames[i],
                      parentId |-> p[i], order |-> 0]] :
       p \in {q \in [1..n -> {NULL, MissingFolderId} \cup {FolderIds[j] : j \in 1..n}] :
                \A i \in 1..n : q[i] \in {NULL, MissingFolderId} \cup {FolderIds[j] : j \in 1..(i - 1)}}}

ModuleLists(fs, m) ==
    LET owners == {MissingFolderId} \cup {fs[j].id : j \in 1..Len(fs)}
    IN {[i \in 1..m |-> [id |-> ModuleIds[i], folderId |-> f[i], order |-> o[i]]] :
          f \in [1..m -> owners], o \in [1..m -> Orders]}

EntryLists(ms, e) ==
    LET owners == {MissingModuleId} \cup {ms[j].id : j \in 1..Len(ms)}
    IN {[i \in 1..e |-> [id |-> EntryIds[i], moduleId |-> mo[i],
                         durationHours |-> DurationOf(i), timestamp |-> ts[i]]] :
          mo \in [1..e -> owners], ts \in [1..e -> Timestamps]}

IdleStore ==
    /\ user = "u1"
    /\ isMounted = TRUE
    /\ profile = NULL
    /\ loading = FALSE
    /\ initialized = TRUE
    /\ isMutating = FALSE
    /\ error = NULL
    /\ calls = <<>>
    /\ settled = NoSettle
    /\ issued = 0
    /\ db = EmptyDb
    /\ derived = NotRendered
    /\ formValues = NoForm
    /\ timer = NoTimer

InitTree ==
    /\ IdleStore
    /\ \E n \in 0..MaxFolders : \E fs \in TreeFolderLists(n) :
          state = [folders |-> fs, modules |-> <<>>, entries |-> <<>>]

InitJoin ==
    /\ IdleStore
    /\ \E n \in 0..MaxFolders : \E fs \in ForestFolderLists(n) :
       \E m \in 0..Len(ModuleIds) : \E ms \in ModuleLists(fs, m) :
       \E e \in 0..Len(EntryIds) : \E es \in EntryLists(ms, e) :
          state = [folders |-> fs, modules |-> ms, entries |-> es]

Render ==
    /\ derived.status = "none"
    /\ derived' = useTimeTracking(state)
    /\ UNCHANGED storeVars
    /\ UNCHANGED pageVars

NextRender == Render

SpecTree == InitTree /\ [][NextRender]_vars
SpecJoin == InitJoin /\ [][NextRender]_vars

\* forests whose folders carry any name, the empty string included
NamePool == {"", "a", "b"}
NamedFolderLists(n) ==
    {[i \in 1..n |-> [id |-> FolderIds[i], name |-> nm[i], parentId |-> p[i], order |-> o[i]]] :
       nm \in [1..n -> NamePool],
       o \in [1..n -> Orders],
       p \in {q \in [1..n -> {NULL} \cup {FolderIds[j] : j \in 1..n}] :
                \A i \in 1..n : q[i] \in {NULL} \cup {FolderIds[j] : j \in 1..(i - 1)}}}

InitNames ==
    /\ IdleStore
    /\ \E n \in 0..MaxFolders : \E fs \in NamedFolderLists(n) :
          state = [folders |-> fs, modules |-> <<>>, entries |-> <<>>]

SpecNames == InitNames /\ [][NextRender]_vars

\* --------------------------------------- src/components/entries/EntryForm.tsx

\* modulesWithRelations.find((module) => module.folderId === folderId)?.id ?? ""
FirstModuleIdByOrder(view, folders, folderId) ==
    LET group == modulesByFolderIdGet(folders, view.modulesWithRelations, folderId)
    IN IF group = <<>> THEN "" ELSE group[1].id
FirstModuleId(view, folders, folderId) ==
    LET hits == {i \in 1..Len(view.modulesWithRelations) :
                    view.modulesWithRelations[i].folderId = folderId}
    IN IF hits = {} THEN ""
       ELSE view.modulesWithRelations[CHOOSE i \in hits : \A j \in hits : i <= j].id

\* initialFormValues of a form that edits no entry
initialFormValues(view, folders) ==
    LET mods == view.modulesWithRelations
        folderId == IF mods # <<>> THEN mods[1].folderId
                    ELSE IF view.flattenedFolders # <<>> THEN view.flattenedFolders[1].id
                    ELSE ""
        moduleForFolder == FirstModuleId(view, folders, folderId)
    IN [open |-> TRUE, folderId |-> folderId,
        moduleId |-> IF moduleForFolder # "" THEN moduleForFolder
                     ELSE IF mods # <<>> THEN mods[1].id ELSE ""]

\* handleFolderChange(value): setFormValues({...prev, folderId, moduleId})
handleFolderChange(view, folders, prev, value) ==
    LET newFolderId == IF value = NULL THEN "" ELSE value
    IN [prev EXCEPT !.folderId = newFolderId,
                    !.moduleId = FirstModuleId(view, folders, newFolderId)]

\* folders, and modules in them, that the form is opened on
MaxFormFolders == 2

InitForm ==
    /\ IdleStore
    /\ \E n \in 0..MaxFormFolders : \E fs \in ForestFolderLists(n) :
       \E m \in 0..Len(ModuleIds) : \E ms \in ModuleLists(fs, m) :
          state = [folders |-> fs, modules |-> ms, entries |-> <<>>]

\* <EntryForm /> is mounted: useState(initialFormValues)
OpenEntryForm ==
    /\ derived.status = "ok"
    /\ ~formValues.open
    /\ formValues' = initialFormValues(derived, state.folders)
    /\ UNCHANGED <<storeVars, derived, timer>>

\* the folder select fires onChange(value): an option of the list, or null
\* when the selection is cleared
HandleFolderChange(value) ==
    /\ derived.status = "ok"
    /\ formValues.open
    /\ value \in {NULL} \cup {derived.flattenedFolders[i].id : i \in 1..Len(derived.flattenedFolders)}
    /\ formValues' = handleFolderChange(derived, state.folders, formValues, value)
    /\ UNCHANGED <<storeVars, derived, timer>>

NextForm ==
    \/ Render
    \/ OpenEntryForm
    \/ \E i \in 0..Len(FolderIds) : HandleFolderChange(IF i = 0 THEN NULL ELSE FolderIds[i])

SpecForm == InitForm /\ [][NextForm]_vars

\* ------------------------------- TimerPageContent: the page and its handlers

InitTimer ==
    /\ user = "u1"
    /\ isMounted = TRUE
    /\ state = INITIAL_STATE
    /\ profile = NULL
    /\ loading = FALSE
    /\ initialized = TRUE
    /\ isMutating = FALSE
    /\ error = NULL
    /\ calls = <<>>
    /\ settled = NoSettle
    /\ issued = 0
    /\ db = EmptyDb
    /\ derived = NotRendered
    /\ formValues = NoForm
    /\ timer = InitialTimer

\* the Switch: setMode(checked ? "timer" : "stopwatch")
SetMode(mode) ==
    /\ timer.mounted /\ timer.mode # mode
    /\ timer' = AfterHandler(timer, [timer EXCEPT !.mode = mode])
    /\ UNCHANGED <<storeVars, derived, formValues>>

\* handleDurationChange(value) for a number
HandleDurationChange(value) ==
    LET minutes == IF value < 1 THEN 1 ELSE IF value > 720 THEN 720 ELSE value
        secondsValue == minutes * 60
    IN /\ timer.mounted /\ timer.mode = "timer"
       /\ timer' = AfterHandler(timer,
             [timer EXCEPT !.timerDurationSeconds = secondsValue,
                           !.remainingSeconds = IF ~timer.running THEN secondsValue ELSE @])
       /\ UNCHANGED <<storeVars, derived, formValues>>

\* startTimer()
StartTimer ==
    /\ timer.mounted /\ ~timer.running
    /\ LET baseline == IF timer.remainingSeconds > 0 THEN timer.remainingSeconds
                       ELSE timer.timerDurationSeconds
           started ==
              IF timer.mode = "stopwatch"
              THEN [timer EXCEPT !.startTimestampRef = timer.now - timer.stopwatchSeconds * 2]
              ELSE [timer EXCEPT !.remainingSeconds = baseline,
                                 !.targetEndRef = timer.now + baseline * 2]
       IN timer' = AfterHandler(timer, [started EXCEPT !.running = TRUE, !.intervalRef = TRUE])
    /\ UNCHANGED <<storeVars, derived, formValues>>

\* the callback of window.setInterval(..., 1000)
IntervalFires ==
    /\ timer.mounted /\ timer.intervalRef
    /\ LET ticked ==
              IF timer.mode = "stopwatch"
              THEN IF timer.startTimestampRef = 0 THEN timer
                   ELSE [timer EXCEPT !.stopwatchSeconds = ElapsedAt(timer)]
              ELSE IF timer.targetEndRef = 0 THEN timer
                   ELSE IF RemainingAt(timer) = 0
                        THEN [timer EXCEPT !.remainingSeconds = 0,
                                           !.intervalRef = FALSE,
                                           !.running = FALSE,
                                           !.targetEndRef = 0]
                        ELSE [timer EXCEPT !.remainingSeconds = RemainingAt(timer)]
       IN timer' = AfterHandler(timer, ticked)
    /\ UNCHANGED <<storeVars, derived, formValues>>

\* pauseTimer()
PauseTimer ==
    /\ timer.mounted /\ timer.running
    /\ LET paused ==
              IF timer.mode = "stopwatch"
              THEN [timer EXCEPT !.stopwatchSeconds =
                                     IF timer.startTimestampRef # 0 THEN ElapsedAt(timer) ELSE @,
                                 !.startTimestampRef = 0]
              ELSE [timer EXCEPT !.remainingSeconds =
                                     IF timer.targetEndRef # 0 THEN RemainingAt(timer) ELSE @,
                                 !.targetEndRef = 0]
       IN timer' = AfterHandler(timer, [paused EXCEPT !.intervalRef = FALSE, !.running = FALSE])
    /\ UNCHANGED <<storeVars, derived, formValues>>

\* resetTimer(); the button is disabled when there is nothing to reset
ResetTimer ==
    /\ timer.mounted
    /\ timer.running \/ (IF timer.mode = "stopwatch" THEN timer.stopwatchSeconds # 0
                         ELSE timer.remainingSeconds # timer.timerDurationSeconds)
    /\ LET cleared == [timer EXCEPT !.intervalRef = FALSE, !.running = FALSE]
           reset == IF timer.mode = "stopwatch"
                    THEN [cleared EXCEPT !.stopwatchSeconds = 0, !.startTimestampRef = 0]
                    ELSE [cleared EXCEPT !.remainingSeconds = timer.timerDurationSeconds,
                                         !.targetEndRef = 0]
       IN timer' = AfterHandler(timer, reset)
    /\ UNCHANGED <<storeVars, derived, formValues>>

\* time passes
Advance(d) ==
    /\ timer.mounted
    /\ timer.now - Epoch + d <= MaxElapsed
    /\ timer' = [timer EXCEPT !.now = @ + d]
    /\ UNCHANGED <<storeVars, derived, formValues>>

\* the tab is in the background for a minute
Throttled ==
    /\ timer.mounted
    /\ timer.now - Epoch <= MaxElapsed
    /\ timer' = [timer EXCEPT !.now = @ + ThrottledGap]
    /\ UNCHANGED <<storeVars, derived, formValues>>

NextTimer ==
    \/ \E mode \in {"stopwatch", "timer"} : SetMode(mode)
    \/ \E value \in DurationMinutes : HandleDurationChange(value)
    \/ StartTimer
    \/ IntervalFires
    \/ PauseTimer
    \/ ResetTimer
    \/ \E d \in ClockSteps : Advance(d)
    \/ Throttled

SpecTimer == InitTimer /\ [][NextTimer]_vars

\* ------------------------------------------- the entry service on its own

\* the durations a caller hands to createEntry: 0 h up to 1.25 h, in half minutes
MaxDuration == 150
DurationInputs == 0..MaxDuration

\* what `await service.createEntry(payload)` resolved with
Created(payload, value) ==
    [op |-> "createEntry", result |-> "resolved", message |-> NULL,
     payload |-> payload, value |-> value]

\* an account that holds folder A and module M1, and no entry yet
EntryDb == [SeedDb EXCEPT !.entries = <<>>, !.createdEntries = 0]

InitEntries ==
    /\ user = "u1"
    /\ isMounted = TRUE
    /\ state = [folders |-> EntryDb.folders, modules |-> EntryDb.modules, entries |-> <<>>]
    /\ profile = fetchState(EntryDb).profile
    /\ loading = FALSE
    /\ initialized = TRUE
    /\ isMutating = FALSE
    /\ error = NULL
    /\ calls = <<>>
    /\ settled = NoSettle
    /\ issued = 0
    /\ db = EntryDb
    /\ derived = NotRendered
    /\ formValues = NoForm
    /\ timer = NoTimer

\* TimeTrackingService.createEntry({moduleId, durationHours, timestamp})
CreateEntry(moduleId, durationHours, timestamp) ==
    LET payload == Arg(NULL, NULL, moduleId, durationHours, timestamp)
    IN \E r \in ServiceSuccess(db, NewCall("addEntry", payload, FALSE, "main")) :
          /\ db' = r.db
          /\ settled' = Created(payload, r.body.data)
          /\ UNCHANGED <<user, isMounted, state, profile, loading, initialized,
                         isMutating, error, calls, issued, derived, formValues, timer>>

\* TimeTrackingService.fetchState(): the rows read back
ReadBack ==
    LET read == fetchState(db)
        snapshot == [folders |-> read.folders, modules |-> read.modules,
                     entries |-> read.entries]
    IN /\ state # snapshot
       /\ state' = snapshot
       /\ UNCHANGED <<user, isMounted, profile, loading, initialized, isMutating,
                      error, calls, settled, issued, db, derived, formValues, timer>>

NextEntries ==
    \/ \E h \in DurationInputs : CreateEntry("M1", h, 1)
    \/ ReadBack

SpecEntries == InitEntries /\ [][NextEntries]_vars

\* ------------------------------------ src/app/api/zeit/**/route.ts: requests

\* the rows of an account with folder B inside folder A, a module in each and
\* an entry of M1
RouteDb ==
    [folders |-> <<[id |-> "A", name |-> "a", parentId |-> NULL, order |-> 0],
                   [id |-> "B", name |-> "b", parentId |-> "A", order |-> 0]>>,
     modules |-> <<[id |-> "M1", folderId |-> "A", order |-> 0],
                   [id |-> "M2", folderId |-> "B", order |-> 0]>>,
     entries |-> <<[id |-> "E1", module_id |-> "M1", duration_minutes |-> 15,
                    entry_date |-> 1]>>,
     createdFolders |-> 2, createdModules |-> 2, createdEntries |-> 1]

NoReply == [status |-> 0, body |-> NoBody]

\* a request on its way through a handler
Request(op, arg, session, parsed, fails, detail) ==
    [op |-> op, arg |-> arg, stage |-> "main", session |-> session, parsed |-> parsed,
     fails |-> fails, detail |-> detail, pc |-> "sent", response |-> NoReply]

\* the id in the path and the fields in the body
RouteArgs(op) ==
    CASE op = "loadState" -> {NoArg}
      [] op = "updateFolder" ->
           {Arg(f, NULL, p, 0, 0) : f \in IdsOf(db.folders), p \in {NULL} \cup IdsOf(db.folders)}
      [] op = "deleteFolder" -> {Arg(f, NULL, NULL, 0, 0) : f \in IdsOf(db.folders)}
      [] op = "updateModule" ->
           {Arg(m, NULL, f, 0, 0) : m \in IdsOf(db.modules), f \in IdsOf(db.folders)}
      [] op = "deleteModule" -> {Arg(m, NULL, NULL, 0, 0) : m \in IdsOf(db.modules)}
      [] op = "updateEntry" -> {Arg(e, NULL, NULL, h, 0) : e \in IdsOf(db.entries), h \in EntryHours}
      [] op = "deleteEntry" -> {Arg(e, NULL, NULL, 0, 0) : e \in IdsOf(db.entries)}

InitRoutes ==
    /\ user = NULL
    /\ isMounted = TRUE
    /\ state = INITIAL_STATE
    /\ profile = NULL
    /\ loading = FALSE
    /\ initialized = FALSE
    /\ isMutating = FALSE
    /\ error = NULL
    /\ calls = <<>>
    /\ settled = NoSettle
    /\ issued = 0
    /\ db \in {SeedDb, RouteDb}
    /\ derived = NotRendered
    /\ formValues = NoForm
    /\ timer = NoTimer

\* a request reaches a route
Receive(op, arg, session, parsed, fails, detail) ==
    /\ calls = <<>>
    /\ calls' = <<Request(op, arg, session, parsed, fails, detail)>>
    /\ UNCHANGED <<user, isMounted, state, profile, loading, initialized, isMutating,
                   error, settled, issued, db, derived, formValues, timer>>

\* the handler runs from its try to its return
HandleRequest ==
    /\ Len(calls) = 1
    /\ calls[1].pc = "sent"
    /\ \E r \in RouteHandler(db, calls[1]) :
          /\ db' = r.db
          /\ calls' = [calls EXCEPT ![1].pc = "responded",
                                    ![1].response = [status |-> r.status, body |-> r.body]]
    /\ UNCHANGED <<user, isMounted, state, profile, loading, initialized, isMutating,
                   error, settled, issued, derived, formValues, timer>>

\* the response leaves the server
SendResponse ==
    /\ Len(calls) = 1
    /\ calls[1].pc = "responded"
    /\ calls' = <<>>
    /\ UNCHANGED <<user, isMounted, state, profile, loading, initialized, isMutating,
                   error, settled, issued, db, derived, formValues, timer>>

NextRoutes ==
    \/ \E op \in RouteOps : \E arg \in RouteArgs(op) : \E session \in Sessions :
         \E parsed \in BOOLEAN : \E fails \in BOOLEAN : \E detail \in ErrorDetails :
            Receive(op, arg, session, parsed, fails, detail)
    \/ HandleRequest
    \/ SendResponse

SpecRoutes == InitRoutes /\ [][NextRoutes]_vars
\* ------------------------------------------------- what the claims speak of

FolderIdSet(fs) == {fs[i].id : i \in 1..Len(fs)}

\* the parentId of the folder called id (ids are unique in a snapshot)
ParentOf(fs, id) == (CHOOSE f \in Range(fs) : f.id = id).parentId

\* the ids met by following parentId from id, as long as they name folders
RECURSIVE AncestorChain(_, _, _)
AncestorChain(fs, id, fuel) ==
    LET p == ParentOf(fs, id)
    IN IF fuel = 0 \/ p \notin FolderIdSet(fs) THEN <<>>
       ELSE <<p>> \o AncestorChain(fs, p, fuel - 1)

Ancestors(fs, id) == Range(AncestorChain(fs, id, Len(fs)))

\* a is id itself or one of its ancestors
IsUnder(fs, a, id) == a = id \/ a \in Ancestors(fs, id)

Acyclic(fs) == \A id \in FolderIdSet(fs) : id \notin Ancestors(fs, id)

ParentsExist(fs) ==
    \A i \in 1..Len(fs) : fs[i].parentId = NULL \/ fs[i].parentId \in FolderIdSet(fs)

\* every node of a tree with its nesting depth, parents before children
RECURSIVE TreeNodes(_, _)
TreeNodes(nodes, depth) ==
    Concat([i \in 1..Len(nodes) |->
        <<[node |-> nodes[i], depth |-> depth]>> \o TreeNodes(nodes[i].children, depth + 1)])

RenderedNodes == TreeNodes(derived.folderTree, 0)

\* the hours of the entries whose module lies in folder fid or beneath it
HoursUnder(s, fid) ==
    SumSeq([i \in 1..Len(s.entries) |->
        IF \E m \in Range(s.modules) :
              m.id = s.entries[i].moduleId /\ IsUnder(s.folders, fid, m.folderId)
        THEN s.entries[i].durationHours ELSE 0])

\* C1: for every node of the built folder tree, totalHours is the sum of
\* durationHours of the snapshot's entries whose module's folder is the node
\* or a descendant of it; it is never negative, and 0 without such entries.
C1_AggregationCorrect ==
    derived.status = "ok" =>
        \A k \in 1..Len(RenderedNodes) :
            LET node == RenderedNodes[k].node
            IN /\ node.totalHours = HoursUnder(state, node.id)
               /\ node.totalHours >= 0

\* a parent whose own module and whose child folder both carry hours
C1_Witness ==
    /\ derived.status = "ok"
    /\ \E k \in 1..Len(RenderedNodes) :
          LET node == RenderedNodes[k].node
          IN /\ node.totalHours = DurationOf(1) + DurationOf(2)
             /\ \E c \in Range(node.children) : c.totalHours = DurationOf(2)
             /\ \E m \in Range(node.modules) : m.totalHours = DurationOf(1)

TreeRoundtripOn(fs) ==
    \A id \in FolderIdSet(fs) :
        /\ Cardinality({k \in 1..Len(RenderedNodes) : RenderedNodes[k].node.id = id}) = 1
        /\ \A k \in 1..Len(RenderedNodes) :
              RenderedNodes[k].node.id = id =>
                 RenderedNodes[k].depth = Len(AncestorChain(fs, id, Len(fs)))

ExpectedDescendants(fs, id) == {g \in FolderIdSet(fs) : IsUnder(fs, id, g)}

\* C3 as stated: for every folder F, folderDescendantsMap(F) is exactly F's id
\* and the ids of the folders whose parentId chain leads to F.
C3_DescendantsAsStated ==
    derived.status = "ok" =>
        \A id \in FolderIdSet(state.folders) :
            /\ id \in DOMAIN derived.folderDescendantsMap
            /\ derived.folderDescendantsMap[id] = ExpectedDescendants(state.folders, id)

\* C3, amended: for every folder F that appears in the built tree,
\* folderDescendantsMap(F) is exactly the set of F's id and the ids of all
\* folders whose parentId chain leads to F; the map has no other key.
C3_Descendants ==
    derived.status = "ok" =>
        /\ DOMAIN derived.folderDescendantsMap
              = {RenderedNodes[k].node.id : k \in 1..Len(RenderedNodes)}
        /\ \A id \in DOMAIN derived.folderDescendantsMap :
              derived.folderDescendantsMap[id] = ExpectedDescendants(state.folders, id)

\* a root with a child and a grandchild: its set holds all three
C3_Witness ==
    /\ derived.status = "ok"
    /\ \E id \in DOMAIN derived.folderDescendantsMap :
          /\ Cardinality(derived.folderDescendantsMap[id]) = 3
          /\ \E k \in 1..Len(RenderedNodes) : RenderedNodes[k].depth = 2

OrderOfFolder(fs, id) == (CHOOSE f \in Range(fs) : f.id = id).order

\* C4: the flattened folder list is the pre-order traversal of the tree with
\* siblings in ascending order: every emitted folder comes after its parent
\* and before its parent's next sibling, at the parent's depth plus 1 (0 for
\* roots).
C4_FlattenPreOrder ==
    derived.status = "ok" =>
        LET flat == derived.flattenedFolders
        IN /\ Len(flat) = Len(RenderedNodes)
           /\ \A i \in 1..Len(flat) :
                 /\ flat[i].id = RenderedNodes[i].node.id
                 /\ flat[i].parentId = NULL => flat[i].depth = 0
                 /\ flat[i].parentId # NULL =>
                       \E j \in 1..(i - 1) :
                          /\ flat[j].id = flat[i].parentId
                          /\ flat[i].depth = flat[j].depth + 1
                          /\ \A k \in (j + 1)..i : flat[k].depth > flat[j].depth
           /\ \A i, j \in 1..Len(flat) :
                 (i < j /\ flat[i].parentId = flat[j].parentId) =>
                    OrderOfFolder(state.folders, flat[i].id)
                       <= OrderOfFolder(state.folders, flat[j].id)

\* two siblings listed against their order, under a common parent
C4_Witness ==
    /\ derived.status = "ok"
    /\ LET flat == derived.flattenedFolders
       IN /\ Len(flat) = 3
          /\ flat[2].depth = 1 /\ flat[3].depth = 1
          /\ flat[2].id = "C" /\ flat[3].id = "B"
          /\ OrderOfFolder(state.folders, "C") < OrderOfFolder(state.folders, "B")

\* C5: for every module M of the join view, M.totalHours is the sum of
\* durationHours of exactly the snapshot entries with moduleId = M.id, and
\* M.entries lists those entries in non-increasing timestamp order.
C5_ModuleJoinIntegrity ==
    derived.status = "ok" =>
        \A k \in 1..Len(derived.modulesWithRelations) :
            LET M == derived.modulesWithRelations[k]
                own == {i \in 1..Len(state.entries) : state.entries[i].moduleId = M.id}
            IN /\ M.totalHours =
                    SumSeq([i \in 1..Len(state.entries) |->
                              IF i \in own THEN state.entries[i].durationHours ELSE 0])
               /\ Len(M.entries) = Cardinality(own)
               /\ Range(M.entries) = {state.entries[i] : i \in own}
               /\ \A i \in 1..(Len(M.entries) - 1) :
                     M.entries[i].timestamp >= M.entries[i + 1].timestamp

\* a module whose two entries are listed earliest first in the snapshot
C5_Witness ==
    /\ derived.status = "ok"
    /\ \E k \in 1..Len(derived.modulesWithRelations) :
          LET M == derived.modulesWithRelations[k]
          IN /\ Len(M.entries) = 2
             /\ M.entries[1].timestamp > M.entries[2].timestamp
             /\ M.entries[1] = state.entries[2]
             /\ M.totalHours = DurationOf(1) + DurationOf(2)

HasOrphanModule(s) ==
    \E m \in Range(s.modules) : m.folderId \notin FolderIdSet(s.folders)

\* C6: if a module of the snapshot has a folderId that names no folder of the
\* snapshot, the join derivation fails with the missing-folder error and
\* yields no module record at all.
C6_OrphanModuleFails ==
    (derived.status # "none" /\ HasOrphanModule(state)) =>
        /\ derived.status = "error"
        /\ derived.error[1] = "Ordner nicht gefunden"
        /\ derived.error[2] \notin FolderIdSet(state.folders)
        /\ "modulesWithRelations" \notin DOMAIN derived

\* a render that failed although another module of the snapshot has its folder
C6_Witness ==
    /\ derived.status = "error"
    /\ HasOrphanModule(state)
    /\ \E m \in Range(state.modules) : m.folderId \in FolderIdSet(state.folders)

\* ------------------------------------------------- claims about the store

\* the step invokes an operation of the store while no user is signed in
InvokedWithoutUser == user = NULL /\ user' = NULL /\ issued' = issued + 1

\* the step hands the failed response at position i to its mutation
MutationFailedAt(i) ==
    /\ calls[i].op \in MutationOps /\ calls[i].stage = "main"
    /\ calls[i].pc = "responded" /\ ~calls[i].response.ok
    /\ calls' = RemoveAt(calls, i)

\* the step hands the failed response at position i to a refresh
RefreshFailedAt(i) ==
    /\ calls[i].op = "loadState"
    /\ calls[i].pc = "responded" /\ ~calls[i].response.ok
    /\ calls' = RemoveAt(calls, i)

\* C7: with no authenticated user, each of the nine mutating operations
\* rejects with the authorization error before any request is issued, without
\* setting isMutating and without changing folders, modules or entries.
C7_NoUserRejectsBeforeRequest ==
    [][(InvokedWithoutUser /\ settled'.op # "refresh") =>
          /\ settled'.op \in MutationOps
          /\ settled'.result = "rejected"
          /\ settled'.message = AuthMessage(settled'.op)
          /\ calls' = calls
          /\ isMutating' = isMutating
          /\ state' = state]_vars

\* a mutation was rejected for want of a user while a snapshot that arrived
\* after the sign-out is on display
C7_Witness ==
    /\ user = NULL
    /\ settled.result = "rejected" /\ settled.message \in AuthMessages
    /\ settled.op = "deleteEntry"
    /\ state.entries # <<>>
    /\ ~isMutating /\ calls = <<>>

\* C8: when the request of a mutating operation returns a non-success result,
\* the operation applies no change: folders, modules and entries right after
\* the rejection are those right before the response arrived.
C8_FailedMutationKeepsSnapshot ==
    [][(\E i \in 1..Len(calls) : MutationFailedAt(i)) =>
          /\ settled'.result = "rejected"
          /\ state' = state]_vars

\* deleteEntry was rejected by the remote side and its entry is still listed
C8_Witness ==
    /\ isMounted
    /\ settled.op = "deleteEntry" /\ settled.result = "rejected"
    /\ settled.message \notin AuthMessages
    /\ state.entries # <<>>

\* C9 as stated: every mutating operation that fails, for want of a user or
\* by a non-success response, rejects its promise and sets `error` to the
\* failure message.
C9_FailureSetsErrorAsStated ==
    (settled.op \in MutationOps /\ settled.result = "rejected") =>
        error = settled.message

\* C9: a mutating operation whose request returns a non-success result
\* rejects its promise with the failure message and, while the provider is
\* mounted, sets `error` to that message; a mutating operation invoked with no
\* user rejects with the authorization message and leaves `error` as it was.
C9_FailureSetsError ==
    [][/\ \A i \in 1..Len(calls) :
             MutationFailedAt(i) =>
                LET message == handleResponse(calls[i].response,
                                              FallbackMessage(calls[i].op)).message
                IN /\ settled' = Settle(calls[i].op, "rejected", message)
                   /\ error' = (IF isMounted THEN message ELSE error)
       /\ (InvokedWithoutUser /\ settled'.op \in MutationOps) =>
             /\ settled'.result = "rejected"
             /\ error' = error]_vars

\* a mounted provider shows the fallback message of a rejected updateEntry
C9_Witness ==
    /\ isMounted
    /\ settled.op = "updateEntry" /\ settled.result = "rejected"
    /\ settled.message = FallbackMessage("updateEntry")
    /\ error = settled.message

\* C10 as stated: when the GET of refresh() returns a non-success result,
\* folders, modules, entries and profile are left as they were.
C10_FailedRefreshKeepsSnapshotAsStated ==
    [][(\E i \in 1..Len(calls) : RefreshFailedAt(i)) =>
          /\ state' = state
          /\ profile' = profile]_vars

\* C10: when the GET of refresh() returns a non-success result while the
\* provider is mounted, folders, modules and entries are emptied, profile
\* becomes null, `error` holds the failure message and initialized is true;
\* after an unmount all of them are left as they were.
C10_FailedRefreshResetsSnapshot ==
    [][\A i \in 1..Len(calls) :
          RefreshFailedAt(i) =>
             IF isMounted
             THEN /\ state' = INITIAL_STATE
                  /\ profile' = NULL
                  /\ error' = handleResponse(calls[i].response,
                                             FallbackMessage("loadState")).message
                  /\ initialized'
             ELSE UNCHANGED <<state, profile, error, initialized>>]_vars

\* a refresh failed while an updateEntry, invoked on an entry of the snapshot
\* then on display, is still under way: the snapshot is gone and the message
\* is shown
C10_Witness ==
    /\ isMounted /\ user # NULL
    /\ settled.op = "refresh" /\ settled.result = "resolved"
    /\ error = ServerMessage
    /\ state = INITIAL_STATE /\ profile = NULL /\ initialized
    /\ \E i \in 1..Len(calls) : calls[i].op = "updateEntry" /\ calls[i].arg.id = "E1"

\* the step hands the successful response at position i to its mutation
MutationSucceededAt(i) ==
    /\ calls[i].op \in MutationOps /\ calls[i].stage = "main"
    /\ calls[i].pc = "responded" /\ calls[i].response.ok
    /\ \/ calls' = RemoveAt(calls, i)
       \/ calls' = [calls EXCEPT ![i] = NewCall(calls[i].op, calls[i].arg, FALSE, "reload")]

\* what handleResponse returns for the response at position i
ReturnedAt(i) == handleResponse(calls[i].response, FallbackMessage(calls[i].op)).value

\* C11: on success, on a mounted provider, addEntry puts the created entry at
\* the head of entries and addFolder / addModule put the created element at
\* the tail of folders / modules; one element is added, the elements present
\* before keep their order, and the other two collections are unchanged.
C11_CreatePlacement ==
    [][\A i \in 1..Len(calls) :
          (isMounted /\ MutationSucceededAt(i)) =>
             LET created == ReturnedAt(i)
             IN /\ calls[i].op = "addEntry" =>
                     /\ state'.entries = <<created>> \o state.entries
                     /\ state'.folders = state.folders /\ state'.modules = state.modules
                /\ calls[i].op = "addFolder" =>
                     /\ state'.folders = state.folders \o <<created>>
                     /\ state'.modules = state.modules /\ state'.entries = state.entries
                /\ calls[i].op = "addModule" =>
                     /\ state'.modules = state.modules \o <<created>>
                     /\ state'.folders = state.folders /\ state'.entries = state.entries]_vars

\* addEntry has resolved and its entry stands before the one listed earlier
C11_Witness ==
    /\ isMounted
    /\ settled = Settle("addEntry", "resolved", NULL)
    /\ Len(state.entries) = 2
    /\ state.entries[1].id = "E2" /\ state.entries[2].id = "E1"

\* list `after` is list `before` with the elements of that id replaced where
\* they stand
ReplacedInPlace(before, after, id, updated) ==
    /\ Len(after) = Len(before)
    /\ \A k \in 1..Len(before) :
          after[k] = (IF before[k].id = id THEN updated ELSE before[k])

\* C12: on success, on a mounted provider, updateFolder / updateModule /
\* updateEntry(id) replaces the element with that id by the returned element
\* at the same position; the length of the collection, its other elements and
\* the other two collections are unchanged, and nothing is inserted when no
\* element has that id.
C12_UpdateInPlace ==
    [][\A i \in 1..Len(calls) :
          (isMounted /\ MutationSucceededAt(i)) =>
             LET updated == ReturnedAt(i)
                 id == calls[i].arg.id
             IN /\ calls[i].op = "updateFolder" =>
                     /\ ReplacedInPlace(state.folders, state'.folders, id, updated)
                     /\ state'.modules = state.modules /\ state'.entries = state.entries
                /\ calls[i].op = "updateModule" =>
                     /\ ReplacedInPlace(state.modules, state'.modules, id, updated)
                     /\ state'.folders = state.folders /\ state'.entries = state.entries
                /\ calls[i].op = "updateEntry" =>
                     /\ ReplacedInPlace(state.entries, state'.entries, id, updated)
                     /\ state'.folders = state.folders /\ state'.modules = state.modules]_vars

\* updateEntry has resolved and the second of two entries carries the new
\* duration
C12_Witness ==
    /\ isMounted
    /\ settled = Settle("updateEntry", "resolved", NULL)
    /\ Len(state.entries) = 2
    /\ state.entries[1].id = "E2"
    /\ state.entries[2].id = "E1" /\ state.entries[2].durationHours = 60

\* C13: a successful deleteEntry(id), on a mounted provider, removes from
\* entries exactly the elements with that id, keeps the order of the others,
\* leaves folders and modules unchanged and issues no GET state request: it
\* resolves in the step that receives the DELETE response.
C13_DeleteEntryLocal ==
    [][/\ \A i \in 1..Len(calls) :
             (isMounted /\ MutationSucceededAt(i) /\ calls[i].op = "deleteEntry") =>
                /\ state'.entries =
                      SelectSeq(state.entries, LAMBDA e : e.id # calls[i].arg.id)
                /\ state'.folders = state.folders /\ state'.modules = state.modules
                /\ calls' = RemoveAt(calls, i)
                /\ settled' = Settle("deleteEntry", "resolved", NULL)
       /\ settled' = Settle("deleteEntry", "resolved", NULL) =>
             \E i \in 1..Len(calls) :
                 MutationSucceededAt(i) /\ calls[i].op = "deleteEntry"]_vars

\* deleteEntry has resolved: of two entries the older one is gone, the newer
\* one is still listed, and no request is under way
C13_Witness ==
    /\ isMounted
    /\ settled = Settle("deleteEntry", "resolved", NULL)
    /\ Len(state.entries) = 1 /\ state.entries[1].id = "E2"
    /\ state.modules # <<>> /\ state.folders # <<>>
    /\ calls = <<>>

\* ------------------------------------- claims about deleting a folder

\* the nodes of the folder tree derived from snapshot s
TreeOf(s) == TreeNodes(useTimeTracking(s).folderTree, 0)

\* the totalHours of the node for folder id in the tree derived from s
TotalHoursIn(s, id) ==
    LET nodes == TreeOf(s)
    IN nodes[CHOOSE k \in 1..Len(nodes) : nodes[k].node.id = id].node.totalHours

\* folder F and the folders beneath it, as snapshot s shows them
SubtreeOf(s, F) == {id \in FolderIdSet(s.folders) : IsUnder(s.folders, F, id)}

\* snapshot s without the subtree of F, its modules and their entries
Pruned(s, F) ==
    LET gone == SubtreeOf(s, F)
        goneModules == {m.id : m \in {x \in Range(s.modules) : x.folderId \in gone}}
    IN [folders |-> SelectSeq(s.folders, LAMBDA f : f.id \notin gone),
        modules |-> SelectSeq(s.modules, LAMBDA m : m.folderId \notin gone),
        entries |-> SelectSeq(s.entries, LAMBDA e : e.moduleId \notin goneModules)]

\* every reference of snapshot s names a row of s
References(s) ==
    /\ \A f \in Range(s.folders) : f.parentId = NULL \/ f.parentId \in FolderIdSet(s.folders)
    /\ \A m \in Range(s.modules) : m.folderId \in FolderIdSet(s.folders)
    /\ \A e \in Range(s.entries) : e.moduleId \in IdsOf(s.modules)

\* the step in which deleteFolder resolves after a successful follow-up GET,
\* on a mounted provider with no other call under way
DeleteFolderResolves ==
    /\ isMounted
    /\ Len(calls) = 1 /\ calls[1].op = "deleteFolder"
    /\ calls[1].pc = "responded" /\ calls[1].response.ok
    /\ settled' = Settle("deleteFolder", "resolved", NULL)

\* C14: after deleteFolder(F) has resolved successfully -- the remote side
\* cascaded the delete, the follow-up refresh succeeded, no other operation is
\* in flight -- the snapshot and the derived tree hold neither F, nor a folder
\* shown beneath F that still has the parent it was shown with, nor a module
\* or entry left without its folder or module; and where the refresh brought
\* exactly the former snapshot less F's subtree and the former snapshot was a
\* forest, the totalHours of every former ancestor of F has dropped by F's
\* former totalHours.
C14_DeleteFolderCascade ==
    [][DeleteFolderResolves =>
          LET F == calls[1].arg.id
          IN /\ F \notin FolderIdSet(state'.folders)
             /\ References(state')
             /\ useTimeTracking(state').status = "ok"
             /\ \A k \in 1..Len(TreeOf(state')) : TreeOf(state')[k].node.id # F
             /\ F \in FolderIdSet(state.folders) =>
                   /\ \A f \in Range(state'.folders) :
                         f \in Range(state.folders) => f.id \notin SubtreeOf(state, F)
                   /\ (/\ state' = Pruned(state, F)
                       /\ useTimeTracking(state).status = "ok"
                       /\ Acyclic(state.folders) /\ ParentsExist(state.folders)) =>
                         \A A \in Ancestors(state.folders, F) :
                             TotalHoursIn(state', A) =
                                TotalHoursIn(state, A) - TotalHoursIn(state, F)]_vars

\* deleteFolder("B") has resolved: of A > B > C with module M1 in C and
\* module M2 in A only A, M2 and its entry are left, and A shows the hours
\* of M2 alone
C14_Witness ==
    /\ isMounted /\ calls = <<>> /\ error = NULL
    /\ settled = Settle("deleteFolder", "resolved", NULL)
    /\ IdsOf(state.folders) = {"A"}
    /\ IdsOf(state.modules) = {"M2"}
    /\ IdsOf(state.entries) = {"E2"}
    /\ TotalHoursIn(state, "A") = minutesToHours(30)
    /\ TotalHoursIn(fetchState(NestedDb), "A") = minutesToHours(30) + minutesToHours(15)
    /\ TotalHoursIn(fetchState(NestedDb), "B") = minutesToHours(15)

\* ------------------------------------- claims about flags and liveness

\* C15 as stated: while a mutation invoked with a user present has not
\* settled (for deleteFolder / deleteModule the follow-up refresh included),
\* isMutating is true, in every interleaving of concurrent mutations.
C15_MutatingUntilSettled ==
    (\E i \in 1..Len(calls) : calls[i].op \in MutationOps) => isMutating

\* the step hands the successful GET response at position i to loadState
LoadSucceededAt(i) ==
    /\ calls[i].op = "loadState" \/ calls[i].stage = "reload"
    /\ calls[i].pc = "responded" /\ calls[i].response.ok
    /\ calls' = RemoveAt(calls, i)

\* the number of collections in which two snapshots differ
CollectionsChanged(before, after) ==
    Cardinality({c \in {"folders", "modules", "entries"} : before[c] # after[c]})

\* C16: no step of the store mixes collections from before a refresh with
\* collections from after it: a step either leaves folders, modules, entries
\* and profile alone, or takes all four from one GET state response, or
\* empties all four, or reconciles one collection with a mutation's response.
C16_NoTornSnapshot ==
    [][\/ UNCHANGED <<state, profile>>
       \/ \E i \in 1..Len(calls) :
             /\ LoadSucceededAt(i)
             /\ LET data == ReturnedAt(i)
                IN /\ state' = [folders |-> data.folders, modules |-> data.modules,
                                entries |-> data.entries]
                   /\ profile' = data.profile
       \/ state' = INITIAL_STATE /\ profile' = NULL
       \/ \E i \in 1..Len(calls) :
             /\ MutationSucceededAt(i)
             /\ profile' = profile
             /\ CollectionsChanged(state, state') = 1]_vars

\* a refresh has installed a snapshot that already lists the entry of an
\* addEntry whose own response has not been handled yet
C16_Witness ==
    /\ isMounted
    /\ settled = Settle("refresh", "resolved", NULL)
    /\ Len(state.entries) = 2
    /\ state = LoadedState([threw |-> FALSE, value |-> fetchState(db)], INITIAL_STATE)
    /\ profile = fetchState(db).profile
    /\ \E i \in 1..Len(calls) : calls[i].op = "addEntry" /\ calls[i].pc = "responded"

\* the step hands the response at position i, of either outcome, to the
\* activation that awaits it
ResponseHandledAt(i) ==
    /\ calls[i].pc = "responded"
    /\ \/ calls' = RemoveAt(calls, i)
       \/ calls' = [calls EXCEPT ![i] = NewCall(calls[i].op, calls[i].arg, FALSE, "reload")]

\* C17: once the provider is unmounted, no response of a refresh or mutation
\* still in flight changes state, profile, loading, initialized, isMutating
\* or error; the request is still served and its promise still settles.
C17_UnmountGuard ==
    [][~isMounted =>
          /\ UNCHANGED <<state, profile, loading, initialized, isMutating, error>>
          /\ \A i \in 1..Len(calls) :
                (ResponseHandledAt(i) /\ calls' = RemoveAt(calls, i)) =>
                   settled'.result \in {"resolved", "rejected"}]_vars

\* after the unmount an addEntry resolved and left the snapshot, the flags
\* and the error as they were when it was invoked
C17_Witness ==
    /\ ~isMounted
    /\ settled = Settle("addEntry", "resolved", NULL)
    /\ Len(db.entries) = 2 /\ Len(state.entries) = 1
    /\ isMutating /\ error = NULL
    /\ calls = <<>>

\* C18 as stated: whenever the identity signal is absent and the store has
\* reacted to the sign-out, folders, modules and entries are empty and profile
\* is null, after any sequence of sign-in, sign-out, refresh, mutation and
\* response events.
C18_NoUserEmptySnapshot ==
    user = NULL => (state = INITIAL_STATE /\ profile = NULL)

\* a GET state request of loadState is under way
LoadUnderWay == \E i \in 1..Len(calls) : calls[i].op = "loadState"

\* C19: every transition of the identity signal from absent to present makes
\* the store issue a GET state request; while the provider stays mounted and
\* requests settle, initialized then becomes true and loading returns to
\* false.
C19_SignInLoads ==
    /\ [][(user = NULL /\ user' # NULL) =>
             /\ calls' = Append(calls, NewCall("loadState", NoArg, TRUE, "main"))
             /\ loading']_vars
    /\ LoadUnderWay ~> (~isMounted \/ (initialized /\ ~loading /\ ~LoadUnderWay))

\* after a sign-in the GET has been answered and handled: the store is
\* initialized, not loading, and shows the account
C19_Witness ==
    /\ isMounted /\ user # NULL
    /\ settled = Settle("refresh", "resolved", NULL)
    /\ initialized /\ ~loading /\ calls = <<>>
    /\ state.folders # <<>>

\* C20: when two updateEntry calls on the same id are in flight together, the
\* entry held locally is, after each successful response, the one that
\* response carries, so that after both have settled it is the one of the
\* response that arrived last, whichever call was issued first.
C20_LastArrivalWins ==
    [][\A i \in 1..Len(calls) :
          (isMounted /\ MutationSucceededAt(i) /\ calls[i].op = "updateEntry") =>
             /\ Len(state'.entries) = Len(state.entries)
             /\ \A k \in 1..Len(state'.entries) :
                   state'.entries[k].id = calls[i].arg.id =>
                      state'.entries[k] = ReturnedAt(i)
             /\ \A j \in 1..Len(calls) :
                   (j # i /\ calls[j].op = "updateEntry"
                         /\ calls[j].arg.id = calls[i].arg.id) =>
                      \E k \in 1..Len(calls') : calls'[k] = calls[j]]_vars

\* both updateEntry calls on E1 have settled; the remote side served them in
\* one order and their responses arrived in the other, so the entry held
\* locally is not the one the remote side holds
C20_Witness ==
    /\ isMounted /\ calls = <<>>
    /\ settled = Settle("updateEntry", "resolved", NULL)
    /\ Len(state.entries) = 1 /\ Len(db.entries) = 1
    /\ state.entries[1].id = "E1" /\ db.entries[1].id = "E1"
    /\ state.entries[1] # mapEntryRow(db.entries[1])

\* ---------------------------------------------------------------- C21

\* a whole number of quarter hours, in half minutes
IsQuarterHours(hours) == hours % DurationOf(1) = 0

\* the row createEntry inserted for the entry it returned
PersistedRow(d, id) == CHOOSE row \in Range(d.entries) : row.id = id

\* C21: whenever createEntry has returned, the row it persisted holds the
\* payload's durationHours * 60 rounded to whole minutes; if durationHours is a
\* whole number of quarter hours, the entry it returned, and the same entry
\* once the rows are read back, carry exactly the payload's durationHours.
C21_QuarterHourRoundtrip ==
    settled.op = "createEntry" =>
       LET h == settled.payload.hours
           row == PersistedRow(db, settled.value.id)
       IN /\ settled.value.id \in IdsOf(db.entries)
          /\ 2 * row.duration_minutes \in {h, h + 1}
          /\ IsQuarterHours(h) =>
                /\ 2 * row.duration_minutes = h
                /\ settled.value.durationHours = h
                /\ \A i \in 1..Len(state.entries) :
                      state.entries[i].id = settled.value.id
                         => state.entries[i].durationHours = h

\* 1.25 h was persisted as 75 minutes and read back as 1.25 h
C21_Witness ==
    /\ settled.op = "createEntry"
    /\ settled.payload.hours = 5 * DurationOf(1)
    /\ PersistedRow(db, settled.value.id).duration_minutes = 75
    /\ settled.value.durationHours = 5 * DurationOf(1)
    /\ \E i \in 1..Len(state.entries) :
          state.entries[i].id = settled.value.id /\ state.entries[i].durationHours = 5 * DurationOf(1)

\* ---------------------------------------------------------------- C22

\* folders whose parentId names no folder of the list, and the folders beneath
IsOrphanFolder(fs, id) == ParentOf(fs, id) # NULL /\ ParentOf(fs, id) \notin FolderIdSet(fs)
BeneathOrphans(fs) ==
    {g \in FolderIdSet(fs) : \E f \in FolderIdSet(fs) : IsOrphanFolder(fs, f) /\ IsUnder(fs, f, g)}

\* C22: a folder whose parentId names no folder of the list, and every folder
\* beneath it, is no node of the built tree, no element of the flattened list,
\* no key of the descendant map and no member of any of its sets; the render
\* throws only when a module names a missing folder, never for such a folder.
C22_OrphanFoldersInvisible ==
    derived.status # "none" =>
        /\ derived.status = "error" <=> HasOrphanModule(state)
        /\ derived.status = "ok" =>
              \A g \in BeneathOrphans(state.folders) :
                 /\ \A k \in 1..Len(RenderedNodes) : RenderedNodes[k].node.id # g
                 /\ \A k \in 1..Len(derived.flattenedFolders) : derived.flattenedFolders[k].id # g
                 /\ g \notin DOMAIN derived.folderDescendantsMap
                 /\ \A id \in DOMAIN derived.folderDescendantsMap :
                       g \notin derived.folderDescendantsMap[id]

\* an orphan folder that holds a module, a folder beneath it, and a root that
\* is rendered
C22_Witness ==
    /\ derived.status = "ok"
    /\ Len(derived.flattenedFolders) = 1
    /\ \E f, g \in FolderIdSet(state.folders) :
          /\ IsOrphanFolder(state.folders, f)
          /\ f # g /\ g \in BeneathOrphans(state.folders)
          /\ \E m \in Range(state.modules) : m.folderId = f

\* ---------------------------------------------------------------- C23

\* the folders on a parentId cycle and the folders beneath them
OnOrBeneathCycle(fs) ==
    {g \in FolderIdSet(fs) :
        \E c \in FolderIdSet(fs) : c \in Ancestors(fs, c) /\ IsUnder(fs, c, g)}

\* C23 as stated: if the folder list contains a parentId cycle, tree
\* construction from parentId = null recurses without bound.
C23_CycleDivergesAsStated ==
    (derived.status # "none" /\ ~Acyclic(state.folders)) => derived.status = "overflow"

\* C23, amended: for every folder list with pairwise distinct ids, with or
\* without a parentId cycle, tree construction from parentId = null returns;
\* the folders on a cycle (a folder that is its own parent included) and the
\* folders beneath them are in neither the tree, the flattened list nor the
\* descendant map.
C23_CycleFoldersUnreached ==
    derived.status # "none" =>
        /\ derived.status = "ok"
        /\ \A g \in OnOrBeneathCycle(state.folders) :
              /\ \A k \in 1..Len(RenderedNodes) : RenderedNodes[k].node.id # g
              /\ \A k \in 1..Len(derived.flattenedFolders) : derived.flattenedFolders[k].id # g
              /\ g \notin DOMAIN derived.folderDescendantsMap

\* two folders that are each other's parent next to a root that is rendered
C23_Witness ==
    /\ derived.status = "ok"
    /\ Len(derived.flattenedFolders) = 1
    /\ \E a, b \in FolderIdSet(state.folders) :
          /\ a # b
          /\ ParentOf(state.folders, a) = b
          /\ ParentOf(state.folders, b) = a

\* ---------------------------------------------------------------- C24

\* the names of a folder's ancestors from the root down, then its own name
NamesDownTo(fs, id) ==
    LET up == AncestorChain(fs, id, Len(fs))
    IN [i \in 1..Len(up) |-> (CHOOSE f \in Range(fs) : f.id = up[Len(up) + 1 - i]).name]
       \o <<(CHOOSE f \in Range(fs) : f.id = id).name>>

RECURSIVE JoinedBySlash(_)
JoinedBySlash(names) ==
    IF Len(names) = 1 THEN names[1]
    ELSE JoinedBySlash(SubSeq(names, 1, Len(names) - 1)) \o " / " \o names[Len(names)]

\* C24: for every emitted FlattenedFolder and any folder names, path is the
\* names of the folder's ancestors from the root down to the folder joined by
\* " / ": the name alone at depth 0, and the parent's emitted path followed by
\* " / " and the name at depth >= 1.
C24_PathJoinsAncestorNames ==
    derived.status = "ok" =>
        \A k \in 1..Len(derived.flattenedFolders) :
            LET e == derived.flattenedFolders[k]
                name == (CHOOSE f \in Range(state.folders) : f.id = e.id).name
            IN /\ e.path = JoinedBySlash(NamesDownTo(state.folders, e.id))
               /\ e.depth = 0 => e.path = name
               /\ e.depth >= 1 =>
                     \E j \in 1..Len(derived.flattenedFolders) :
                        /\ derived.flattenedFolders[j].id = e.parentId
                        /\ e.path = derived.flattenedFolders[j].path \o " / " \o name

\* ---------------------------------------------------------------- C25

\* the folder's modules of the snapshot in list order / in ascending order
FolderModuleIdsInListOrder(s, folderId) ==
    LET ms == SelectSeq(s.modules, LAMBDA m : m.folderId = folderId)
    IN [i \in 1..Len(ms) |-> ms[i].id]
FolderModuleIdsByOrder(s, folderId) ==
    LET ms == SortByOrder(SelectSeq(s.modules, LAMBDA m : m.folderId = folderId))
    IN [i \in 1..Len(ms) |-> ms[i].id]

LoadStartedWith(c) == calls' = Append(calls, c) /\ c.op = "loadState"

\* C26: on a mounted provider, a load that fails leaves the store empty and
\* in error (error holds the failure message, folders / modules / entries are
\* empty, profile is null, initialized is true and loading is false); a
\* refresh() invoked afterwards clears error when it starts, and when its
\* response is a success the fetched snapshot and profile are installed,
\* initialized is true, loading is false and error is left as it was.
C26_FailedLoadThenRefresh ==
    [][isMounted =>
          /\ \A i \in 1..Len(calls) :
                (RefreshFailedAt(i) /\ calls[i].withSpinner) =>
                   /\ error' = handleResponse(calls[i].response,
                                              FallbackMessage("loadState")).message
                   /\ error' # NULL
                   /\ state' = INITIAL_STATE /\ profile' = NULL
                   /\ initialized' /\ ~loading'
          /\ \A c \in Range(calls') :
                LoadStartedWith(c) => error' = NULL /\ state' = state /\ loading'
          /\ \A i \in 1..Len(calls) :
                (LoadSucceededAt(i) /\ calls[i].op = "loadState") =>
                   /\ state' = [folders |-> ReturnedAt(i).folders,
                                modules |-> ReturnedAt(i).modules,
                                entries |-> ReturnedAt(i).entries]
                   /\ profile' = ReturnedAt(i).profile
                   /\ initialized' /\ ~loading'
                   /\ error' = error]_vars

\* the load of the sign-in has failed (initialized, nothing on display although
\* the account holds rows), the refresh invoked afterwards has cleared error
\* and its successful response is about to be handled
C26_Witness ==
    /\ isMounted /\ user # NULL
    /\ db = SeedDb
    /\ state = INITIAL_STATE /\ profile = NULL /\ initialized
    /\ error = NULL /\ loading
    /\ Len(calls) = 1
    /\ calls[1].op = "loadState" /\ calls[1].pc = "responded" /\ calls[1].response.ok
    /\ calls[1].response.body = DataBody(fetchState(SeedDb))

\* ---------------------------------------------------------------- C27

\* a mutating operation has been started and has not settled yet (its own
\* request or the reload it awaits is outstanding)
MutationUnderWay == \E i \in 1..Len(calls) : calls[i].op \in MutationOps

\* C27: while the provider is mounted, isMutating is false whenever no
\* mutating operation that was started is still unsettled, whatever the order
\* in which overlapping mutations were answered and whether they succeeded or
\* failed.
C27_MutatingNotStuck == (isMounted /\ ~MutationUnderWay) => ~isMutating

\* two mutations have been invoked after the sign-in and both have settled,
\* an addFolder with success and the last one with a failure
C27_Witness ==
    /\ isMounted /\ user # NULL
    /\ issued = MaxIssued /\ calls = <<>>
    /\ settled.op \in MutationOps /\ settled.result = "rejected"
    /\ error = ServerMessage
    /\ Len(db.folders) = 2
    /\ ~isMutating

\* ---------------------------------------------------------------- C28

\* C28: in every snapshot the store reaches, each module's folderId is the id
\* of a folder of the same snapshot, so the join view never raises the
\* missing-folder error.
C28_NoOrphanModuleReachable ==
    /\ ~HasOrphanModule(state)
    /\ modulesWithRelations(state).ok

\* ---------------------------------------------------------------- C29

\* C29: in timer mode, pausing a running countdown leaves remainingSeconds at
\* the seconds that remain at the moment of the pause, and a start that
\* follows counts down from the remainingSeconds on display (the full
\* timerDurationSeconds only when none remain).
C29_PauseKeepsRemaining ==
    [][/\ (timer.mode = "timer" /\ timer.targetEndRef # 0 /\ PauseTimer) =>
             /\ ~timer'.running
             /\ timer'.remainingSeconds = RemainingAt(timer)
       /\ (timer.mode = "timer" /\ StartTimer) =>
             LET baseline == IF timer.remainingSeconds > 0 THEN timer.remainingSeconds
                             ELSE timer.timerDurationSeconds
             IN /\ timer'.running
                /\ timer'.remainingSeconds = baseline
                /\ RemainingAt(timer') = baseline]_vars


\* ---------------------------------------------------------------- C30

\* C30: a request that reaches a route with no signed-in user or with a failed
\* authentication lookup is answered with status 401 and leaves the database
\* rows as they were, and status 500 answers only requests that fail for
\* another reason than authentication.
C30_AuthFailuresGet401 ==
    [][HandleRequest =>
         LET r == calls[1]
             status == calls'[1].response.status
         IN /\ r.session \in {"none", "failed"} => (status = 401 /\ db' = db)
            /\ status = 500 => r.session = "user"]_vars

====
